---- MODULE Spec2Model ----
(***************************************************************************)
(* Korean PDF grammar checker back end: the anchor-mapped text normalizer  *)
(* (text_preprocessor.py), the paragraph segmenter (pdf_extractor.py),     *)
(* the per-paragraph checking loop (spell_checker.py) and the error-to-    *)
(* geometry reconciler (main_processor.py).                                *)
(*                                                                         *)
(* A character is its Unicode code point, a Python str is a sequence of    *)
(* code points, a Python dict keyed by integers is a function whose DOMAIN *)
(* is the set of its keys, a Python list is a sequence.  Python indexes    *)
(* from 0 and TLA+ sequences from 1: At(text, i) is Python's text[i].      *)
(***************************************************************************)
EXTENDS Integers, Sequences, FiniteSets, TLC

VARIABLES
    pc,                   \* where process(), or the function under study, stands
    raw_text,             \* the extracted text
    text_with_positions,  \* one record per extracted character
    paragraphs,           \* the segmenter's result
    cleaned_text,         \* TextPreprocessor.cleaned_text
    anchor_map,           \* TextPreprocessor.anchor_map
    responses,            \* what the external checker returned, one entry per paragraph
    errors,               \* all_errors of check_paragraphs
    annotations,          \* the list _create_annotations returns
    split,                \* the locals of the segmenter's loop
    process_result,       \* the dict process() returns
    calls,                \* the collaborators called so far, in order
    requests              \* the locals of each process() call in flight on one processor

vars == << pc, raw_text, text_with_positions, paragraphs, cleaned_text, anchor_map,
           responses, errors, annotations, split, process_result, calls, requests >>

-----------------------------------------------------------------------------
(* Characters the code names.                                              *)

NEWLINE == 10
TAB == 9
CARRIAGE_RETURN == 13
SPACE == 32
HYPHEN == 45
FIRST_PRINTABLE == 32
NUL == 0
PUA_FIRST == 61440
PUA_LAST == 61695
HANGUL_SYLLABLE_FIRST == 44032
HANGUL_SYLLABLE_LAST == 55203
JAMO_CONSONANT_FIRST == 12593
JAMO_CONSONANT_LAST == 12622
JAMO_VOWEL_FIRST == 12623
JAMO_VOWEL_LAST == 12643

(* '.', '!' and '?' *)
SentenceTerminals == {46, 33, 63}

(* ['이','가','을','를','은','는','와','과','의','에','도','만',
    '에서','부터','까지','로','으로'] in the order of the source list *)
particles ==
    << <<51060>>, <<44032>>, <<51012>>, <<47484>>, <<51008>>, <<45716>>,
       <<50752>>, <<44284>>, <<51032>>, <<50640>>, <<46020>>, <<47564>>,
       <<50640, 49436>>, <<48512, 53552>>, <<44620, 51648>>, <<47196>>,
       <<51004, 47196>> >>

-----------------------------------------------------------------------------
(* Python primitives.                                                      *)

At(text, i) == text[i + 1]

(* text[a:b] for 0 <= a *)
Slice(text, a, b) ==
    IF b > Len(text) THEN SubSeq(text, a + 1, Len(text)) ELSE SubSeq(text, a + 1, b)

(* d.get(i, [i]) *)
Get(mapping, i) == IF i \in DOMAIN mapping THEN mapping[i] ELSE << i >>

(* d[k] = v *)
Put(mapping, k, v) ==
    [x \in (DOMAIN mapping) \cup {k} |-> IF x = k THEN v ELSE mapping[x]]

EmptyDict == [x \in {} |-> << >>]

Max(a, b) == IF a >= b THEN a ELSE b

-----------------------------------------------------------------------------
(* TextPreprocessor                                                        *)

_is_korean(char) ==
    \/ HANGUL_SYLLABLE_FIRST <= char /\ char <= HANGUL_SYLLABLE_LAST
    \/ JAMO_CONSONANT_FIRST <= char /\ char <= JAMO_CONSONANT_LAST
    \/ JAMO_VOWEL_FIRST <= char /\ char <= JAMO_VOWEL_LAST

(* a variant that looks for '.', '!', '?' anywhere in the text *)
_is_sentence_end_anywhere(text, pos) ==
    \E i \in 0 .. (Len(text) - 1) : At(text, i) \in SentenceTerminals

_is_sentence_end(text, pos) ==
    \E i \in Max(0, pos - 3) .. (pos - 1) : At(text, i) \in SentenceTerminals

(* variant: a kept character is anchored to its offset in the output *)
RECURSIVE _clean_pdf_noise_loop_output_anchor(_, _, _, _, _)
_clean_pdf_noise_loop_output_anchor(text, i, result, mapping, cleaned_idx) ==
    IF ~(i < Len(text)) THEN [text |-> result, mapping |-> mapping]
    ELSE LET char == At(text, i) IN
         IF char < FIRST_PRINTABLE /\ char \notin {NEWLINE, TAB, CARRIAGE_RETURN}
         THEN _clean_pdf_noise_loop_output_anchor(text, i + 1, result, mapping, cleaned_idx)
         ELSE IF char = NUL
         THEN _clean_pdf_noise_loop_output_anchor(text, i + 1, result, mapping, cleaned_idx)
         ELSE IF PUA_FIRST <= char /\ char <= PUA_LAST
         THEN _clean_pdf_noise_loop_output_anchor(text, i + 1, Append(result, SPACE),
                  Put(mapping, cleaned_idx, << cleaned_idx >>), cleaned_idx + 1)
         ELSE _clean_pdf_noise_loop_output_anchor(text, i + 1, Append(result, char),
                  Put(mapping, cleaned_idx, << cleaned_idx >>), cleaned_idx + 1)

RECURSIVE _clean_pdf_noise_loop(_, _, _, _, _)
_clean_pdf_noise_loop(text, i, result, mapping, cleaned_idx) ==
    IF ~(i < Len(text)) THEN [text |-> result, mapping |-> mapping]
    ELSE LET char == At(text, i) IN
         IF char < FIRST_PRINTABLE /\ char \notin {NEWLINE, TAB, CARRIAGE_RETURN}
         THEN _clean_pdf_noise_loop(text, i + 1, result, mapping, cleaned_idx)
         ELSE IF char = NUL
         THEN _clean_pdf_noise_loop(text, i + 1, result, mapping, cleaned_idx)
         ELSE IF PUA_FIRST <= char /\ char <= PUA_LAST
         THEN _clean_pdf_noise_loop(text, i + 1, Append(result, SPACE),
                                    Put(mapping, cleaned_idx, << i >>), cleaned_idx + 1)
         ELSE _clean_pdf_noise_loop(text, i + 1, Append(result, char),
                                    Put(mapping, cleaned_idx, << i >>), cleaned_idx + 1)

_clean_pdf_noise(text) == _clean_pdf_noise_loop(text, 0, << >>, EmptyDict, 0)

RECURSIVE _merge_hyphen_newlines_loop(_, _, _, _, _, _)
_merge_hyphen_newlines_loop(text, mapping, i, result, new_mapping, cleaned_idx) ==
    IF ~(i < Len(text)) THEN [text |-> result, mapping |-> new_mapping]
    ELSE IF i + 1 < Len(text) /\ At(text, i) = HYPHEN /\ At(text, i + 1) = NEWLINE
    THEN _merge_hyphen_newlines_loop(text, mapping, i + 2, result, new_mapping, cleaned_idx)
    ELSE _merge_hyphen_newlines_loop(text, mapping, i + 1, Append(result, At(text, i)),
                                     Put(new_mapping, cleaned_idx, Get(mapping, i)),
                                     cleaned_idx + 1)

(* a variant that drops the hyphen and keeps the newline *)
RECURSIVE _drop_hyphen_only_loop(_, _, _, _, _, _)
_drop_hyphen_only_loop(text, mapping, i, result, new_mapping, cleaned_idx) ==
    IF ~(i < Len(text)) THEN [text |-> result, mapping |-> new_mapping]
    ELSE IF i + 1 < Len(text) /\ At(text, i) = HYPHEN /\ At(text, i + 1) = NEWLINE
    THEN _drop_hyphen_only_loop(text, mapping, i + 1, result, new_mapping, cleaned_idx)
    ELSE _drop_hyphen_only_loop(text, mapping, i + 1, Append(result, At(text, i)),
                                Put(new_mapping, cleaned_idx, Get(mapping, i)),
                                cleaned_idx + 1)

_merge_hyphen_newlines_keeps_newline(text, mapping) ==
    _drop_hyphen_only_loop(text, mapping, 0, << >>, EmptyDict, 0)

_merge_hyphen_newlines(text, mapping) ==
    _merge_hyphen_newlines_loop(text, mapping, 0, << >>, EmptyDict, 0)

(* the "if cleaned_idx in new_mapping: extend ... else: assign" of the word-break stage *)
ExtendOrPut(new_mapping, cleaned_idx, indices) ==
    IF cleaned_idx \in DOMAIN new_mapping
    THEN Put(new_mapping, cleaned_idx, new_mapping[cleaned_idx] \o indices)
    ELSE Put(new_mapping, cleaned_idx, indices)

(* variant: the merged syllable also takes the anchor of the removed newline *)
RECURSIVE _merge_word_breaks_loop_anchors_newline(_, _, _, _, _, _)
_merge_word_breaks_loop_anchors_newline(text, mapping, i, result, new_mapping, cleaned_idx) ==
    IF ~(i < Len(text)) THEN [text |-> result, mapping |-> new_mapping]
    ELSE IF /\ i + 2 < Len(text)
            /\ _is_korean(At(text, i))
            /\ At(text, i + 1) = NEWLINE
            /\ _is_korean(At(text, i + 2))
            /\ ~_is_sentence_end(text, i)
    THEN _merge_word_breaks_loop_anchors_newline(text, mapping, i + 2,
             Append(result, At(text, i)),
             ExtendOrPut(new_mapping, cleaned_idx, Get(mapping, i) \o Get(mapping, i + 1)),
             cleaned_idx + 1)
    ELSE _merge_word_breaks_loop_anchors_newline(text, mapping, i + 1,
             Append(result, At(text, i)),
             ExtendOrPut(new_mapping, cleaned_idx, Get(mapping, i)), cleaned_idx + 1)

RECURSIVE _merge_word_breaks_loop(_, _, _, _, _, _)
_merge_word_breaks_loop(text, mapping, i, result, new_mapping, cleaned_idx) ==
    IF ~(i < Len(text)) THEN [text |-> result, mapping |-> new_mapping]
    ELSE IF /\ i + 2 < Len(text)
            /\ _is_korean(At(text, i))
            /\ At(text, i + 1) = NEWLINE
            /\ _is_korean(At(text, i + 2))
            /\ ~_is_sentence_end(text, i)
    THEN _merge_word_breaks_loop(text, mapping, i + 2, Append(result, At(text, i)),
                                 ExtendOrPut(new_mapping, cleaned_idx, Get(mapping, i)),
                                 cleaned_idx + 1)
    ELSE _merge_word_breaks_loop(text, mapping, i + 1, Append(result, At(text, i)),
                                 ExtendOrPut(new_mapping, cleaned_idx, Get(mapping, i)),
                                 cleaned_idx + 1)

_merge_word_breaks(text, mapping) ==
    _merge_word_breaks_loop(text, mapping, 0, << >>, EmptyDict, 0)

(* the particles that match at text[i + 2:], by their place in the list *)
MatchingParticles(text, i) ==
    {p \in 1 .. Len(particles) :
        /\ i + 2 + Len(particles[p]) <= Len(text)
        /\ Slice(text, i + 2, i + 2 + Len(particles[p])) = particles[p]}

(* variant: the longest particle that matches *)
FirstMatchingParticle_longest(text, i) ==
    particles[CHOOSE p \in MatchingParticles(text, i) :
                 \A q \in MatchingParticles(text, i) :
                     Len(particles[p]) >= Len(particles[q])]

(* the first particle of the list that matches: the for loop breaks at it *)
FirstMatchingParticle(text, i) ==
    particles[CHOOSE p \in MatchingParticles(text, i) :
                 \A q \in MatchingParticles(text, i) : p <= q]

(* for j in range(len(particle)): new_mapping[cleaned_idx] = mapping.get(i + 2 + j, ...) *)
RECURSIVE PutParticle(_, _, _, _, _, _)
PutParticle(mapping, new_mapping, cleaned_idx, i, particle, j) ==
    IF ~(j < Len(particle)) THEN new_mapping
    ELSE PutParticle(mapping, Put(new_mapping, cleaned_idx, Get(mapping, i + 2 + j)),
                     cleaned_idx + 1, i, particle, j + 1)

RECURSIVE _merge_particles_loop(_, _, _, _, _, _)
_merge_particles_loop(text, mapping, i, result, new_mapping, cleaned_idx) ==
    IF ~(i < Len(text)) THEN [text |-> result, mapping |-> new_mapping]
    ELSE IF /\ i + 2 < Len(text)
            /\ _is_korean(At(text, i))
            /\ At(text, i + 1) = SPACE
            /\ MatchingParticles(text, i) # {}
    THEN LET particle == FirstMatchingParticle(text, i)
             end_idx == i + 2 + Len(particle)
         IN _merge_particles_loop(text, mapping, end_idx,
                Append(result, At(text, i)) \o particle,
                PutParticle(mapping, Put(new_mapping, cleaned_idx, Get(mapping, i)),
                            cleaned_idx + 1, i, particle, 0),
                cleaned_idx + 1 + Len(particle))
    ELSE _merge_particles_loop(text, mapping, i + 1, Append(result, At(text, i)),
                               Put(new_mapping, cleaned_idx, Get(mapping, i)),
                               cleaned_idx + 1)

_merge_particles(text, mapping) ==
    _merge_particles_loop(text, mapping, 0, << >>, EmptyDict, 0)

(* variant: only a newline after '.', '!' or '?' becomes a space *)
RECURSIVE _normalize_sentence_breaks_loop_terminals_only(_, _, _, _, _, _)
_normalize_sentence_breaks_loop_terminals_only(text, mapping, i, result, new_mapping, cleaned_idx) ==
    IF ~(i < Len(text)) THEN [text |-> result, mapping |-> new_mapping]
    ELSE IF At(text, i) = NEWLINE
    THEN IF i > 0 /\ At(text, i - 1) \in SentenceTerminals
         THEN _normalize_sentence_breaks_loop_terminals_only(text, mapping, i + 1,
                  Append(result, SPACE), Put(new_mapping, cleaned_idx, Get(mapping, i)),
                  cleaned_idx + 1)
         ELSE _normalize_sentence_breaks_loop_terminals_only(text, mapping, i + 1, result,
                  new_mapping, cleaned_idx)
    ELSE _normalize_sentence_breaks_loop_terminals_only(text, mapping, i + 1,
             Append(result, At(text, i)), Put(new_mapping, cleaned_idx, Get(mapping, i)),
             cleaned_idx + 1)

RECURSIVE _normalize_sentence_breaks_loop(_, _, _, _, _, _)
_normalize_sentence_breaks_loop(text, mapping, i, result, new_mapping, cleaned_idx) ==
    IF ~(i < Len(text)) THEN [text |-> result, mapping |-> new_mapping]
    ELSE IF At(text, i) = NEWLINE
    THEN IF \/ i > 0 /\ At(text, i - 1) \in SentenceTerminals
            \/ i > 0 /\ _is_korean(At(text, i - 1))
         THEN _normalize_sentence_breaks_loop(text, mapping, i + 1, Append(result, SPACE),
                  Put(new_mapping, cleaned_idx, Get(mapping, i)), cleaned_idx + 1)
         ELSE _normalize_sentence_breaks_loop(text, mapping, i + 1, result, new_mapping,
                                              cleaned_idx)
    ELSE _normalize_sentence_breaks_loop(text, mapping, i + 1, Append(result, At(text, i)),
             Put(new_mapping, cleaned_idx, Get(mapping, i)), cleaned_idx + 1)

_normalize_sentence_breaks(text, mapping) ==
    _normalize_sentence_breaks_loop(text, mapping, 0, << >>, EmptyDict, 0)

(* variant: the spaces after the first are not skipped *)
SkipSpaces_none(text, i) == i

(* while i < len(text) and text[i] == ' ': i += 1 *)
RECURSIVE SkipSpaces(_, _)
SkipSpaces(text, i) ==
    IF i < Len(text) /\ At(text, i) = SPACE THEN SkipSpaces(text, i + 1) ELSE i

RECURSIVE _normalize_spaces_loop(_, _, _, _, _, _)
_normalize_spaces_loop(text, mapping, i, result, new_mapping, cleaned_idx) ==
    IF ~(i < Len(text)) THEN [text |-> result, mapping |-> new_mapping]
    ELSE IF At(text, i) = SPACE
    THEN _normalize_spaces_loop(text, mapping, SkipSpaces(text, i + 1),
             Append(result, SPACE), Put(new_mapping, cleaned_idx, Get(mapping, i)),
             cleaned_idx + 1)
    ELSE _normalize_spaces_loop(text, mapping, i + 1, Append(result, At(text, i)),
             Put(new_mapping, cleaned_idx, Get(mapping, i)), cleaned_idx + 1)

(* a variant that returns the mapping it was given instead of the new one *)
_normalize_spaces_stale_mapping(text, mapping) ==
    [text |-> _normalize_spaces_loop(text, mapping, 0, << >>, EmptyDict, 0).text,
     mapping |-> mapping]

_normalize_spaces(text, mapping) ==
    _normalize_spaces_loop(text, mapping, 0, << >>, EmptyDict, 0)

(* the text and mapping after each stage of preprocess(), stage 0 .. stage 5 *)
AfterNoise(raw) == _clean_pdf_noise(raw)

AfterHyphens(raw) ==
    LET s == AfterNoise(raw) IN _merge_hyphen_newlines(s.text, s.mapping)

AfterWordBreaks(raw) ==
    LET s == AfterHyphens(raw) IN _merge_word_breaks(s.text, s.mapping)

AfterParticles(raw) ==
    LET s == AfterWordBreaks(raw) IN _merge_particles(s.text, s.mapping)

AfterSentenceBreaks(raw) ==
    LET s == AfterParticles(raw) IN _normalize_sentence_breaks(s.text, s.mapping)

preprocess(raw) ==
    LET s == AfterSentenceBreaks(raw) IN _normalize_spaces(s.text, s.mapping)

(* variant: an offset without anchor stands for itself, as mapping.get(i, [i])
   does inside the stages *)
RECURSIVE get_original_positions_loop_defaults(_, _, _, _)
get_original_positions_loop_defaults(mapping, i, cleaned_end, original_indices) ==
    IF ~(i < cleaned_end) THEN original_indices
    ELSE get_original_positions_loop_defaults(mapping, i + 1, cleaned_end,
             original_indices \o Get(mapping, i))

RECURSIVE get_original_positions_loop(_, _, _, _)
get_original_positions_loop(mapping, i, cleaned_end, original_indices) ==
    IF ~(i < cleaned_end) THEN original_indices
    ELSE get_original_positions_loop(mapping, i + 1, cleaned_end,
             IF i \in DOMAIN mapping THEN original_indices \o mapping[i]
             ELSE original_indices)

get_original_positions(mapping, cleaned_start, cleaned_end) ==
    get_original_positions_loop(mapping, cleaned_start, cleaned_end, << >>)

-----------------------------------------------------------------------------
(* SimplePDFExtractor._split_into_paragraphs                               *)

ParagraphSoftLimit == 300

(* the characters str.strip() and str.isspace() treat as whitespace *)
IsWhitespace(char) ==
    char \in {9, 10, 11, 12, 13, 28, 29, 30, 31, 32, 133, 160, 5760, 8232, 8233,
              8239, 8287, 12288} \cup (8192 .. 8202)

RECURSIVE LStrip(_)
LStrip(s) == IF s # << >> /\ IsWhitespace(Head(s)) THEN LStrip(Tail(s)) ELSE s

RECURSIVE RStrip(_)
RStrip(s) ==
    IF s # << >> /\ IsWhitespace(s[Len(s)]) THEN RStrip(SubSeq(s, 1, Len(s) - 1)) ELSE s

(* str.strip() *)
Strip(s) == RStrip(LStrip(s))

(* a variant that appends the paragraph even when its stripped text is empty *)
AppendParagraph_keeps_blank(paras, twp, current_para, current_start, end_index) ==
    Append(paras, [text |-> Strip(current_para),
                   start_index |-> current_start,
                   end_index |-> end_index,
                   page |-> IF current_start < Len(twp)
                            THEN At(twp, current_start).page ELSE 1])

(* the dict appended to paragraphs; nothing is appended when the stripped text is empty *)
AppendParagraph(paras, twp, current_para, current_start, end_index) ==
    LET para_text == Strip(current_para) IN
    IF para_text # << >>
    THEN Append(paras, [text |-> para_text,
                        start_index |-> current_start,
                        end_index |-> end_index,
                        page |-> IF current_start < Len(twp)
                                 THEN At(twp, current_start).page ELSE 1])
    ELSE paras

(* a variant that closes at a sentence end only above the soft limit *)
SplitStep_above_limit(st, twp, raw, i) ==
    LET char == At(raw, i)
        current_para == Append(st.current_para, char)
    IN IF /\ i > 0
          /\ char = NEWLINE
          /\ \/ At(raw, i - 1) = NEWLINE
             \/ /\ Len(current_para) > ParagraphSoftLimit
                /\ At(raw, i - 1) \in SentenceTerminals
       THEN [paragraphs |-> AppendParagraph(st.paragraphs, twp, current_para,
                                            st.current_start, i),
             current_para |-> << >>,
             current_start |-> i + 1]
       ELSE [paragraphs |-> st.paragraphs,
             current_para |-> current_para,
             current_start |-> st.current_start]

(* one iteration of "for i, char in enumerate(raw_text)" on the loop's locals *)
SplitStep(st, twp, raw, i) ==
    LET char == At(raw, i)
        current_para == Append(st.current_para, char)
    IN IF i > 0 /\ char = NEWLINE /\ At(raw, i - 1) = NEWLINE
       THEN [paragraphs |-> AppendParagraph(st.paragraphs, twp, current_para,
                                            st.current_start, i),
             current_para |-> << >>,
             current_start |-> i + 1]
       ELSE IF /\ i > 0
               /\ Len(current_para) >= ParagraphSoftLimit
               /\ char = NEWLINE
               /\ At(raw, i - 1) \in SentenceTerminals
       THEN [paragraphs |-> AppendParagraph(st.paragraphs, twp, current_para,
                                            st.current_start, i),
             current_para |-> << >>,
             current_start |-> i + 1]
       ELSE [paragraphs |-> st.paragraphs,
             current_para |-> current_para,
             current_start |-> st.current_start]

(* the locals before the loop *)
SplitStart == [paragraphs |-> << >>, current_para |-> << >>, current_start |-> 0]

(* variant: what is accumulated after the last close is not emitted *)
SplitFinish_drops_tail(st, twp, raw) == st.paragraphs

(* "if current_para:" after the loop, and the return value *)
SplitFinish(st, twp, raw) ==
    IF st.current_para # << >>
    THEN AppendParagraph(st.paragraphs, twp, st.current_para, st.current_start, Len(raw))
    ELSE st.paragraphs

RECURSIVE SplitLoop(_, _, _, _)
SplitLoop(st, twp, raw, i) ==
    IF ~(i < Len(raw)) THEN st
    ELSE SplitLoop(SplitStep(st, twp, raw, i), twp, raw, i + 1)

_split_into_paragraphs(twp, raw) == SplitFinish(SplitLoop(SplitStart, twp, raw, 0), twp, raw)

-----------------------------------------------------------------------------
(* SpellChecker.check_paragraphs and the external checker                  *)

(* a variant that leaves the checker's position as it is *)
Rebias_keeps_position(error, para) == error

(* error['position'] = para['start_index'] + error.get('position', 0) *)
Rebias(error, para) == [error EXCEPT !.position = para.start_index + error.position]

RECURSIVE RebiasAll(_, _, _)
RebiasAll(all_errors, para_errors, para) ==
    IF para_errors = << >> THEN all_errors
    ELSE RebiasAll(Append(all_errors, Rebias(Head(para_errors), para)),
                   Tail(para_errors), para)

-----------------------------------------------------------------------------
(* GrammarCheckProcessor: the reconciler.  A coordinate is a whole number   *)
(* of thousandths of a page unit; a missing bbox (None) is << >>.           *)

NoBox == << >>

LineThreshold == 10

(* round(v, 2) on thousandths: to the nearest hundredth, a tie to the even one *)
Round2(v) ==
    LET low == (v \div 10) * 10
        rest == v - low
    IN IF rest < 5 THEN low
       ELSE IF rest > 5 THEN low + 10
       ELSE IF (low \div 10) % 2 = 0 THEN low ELSE low + 10

MinOf(S) == CHOOSE x \in S : \A y \in S : x <= y
MaxOf(S) == CHOOSE x \in S : \A y \in S : x >= y

(* a variant that returns the first box of the list *)
_merge_boxes_first_only(boxes) == boxes[1]

_merge_boxes(boxes) ==
    << MinOf({boxes[k][1] : k \in 1 .. Len(boxes)}),
       MinOf({boxes[k][2] : k \in 1 .. Len(boxes)}),
       MaxOf({boxes[k][3] : k \in 1 .. Len(boxes)}),
       MaxOf({boxes[k][4] : k \in 1 .. Len(boxes)}) >>

(* [c.get('bbox') for c in chars if c.get('bbox')] *)
RECURSIVE ValidBoxes(_)
ValidBoxes(chars) ==
    IF chars = << >> THEN << >>
    ELSE IF Head(chars).bbox # NoBox THEN << Head(chars).bbox >> \o ValidBoxes(Tail(chars))
    ELSE ValidBoxes(Tail(chars))

_aggregate_bbox(chars) ==
    IF ValidBoxes(chars) = << >> THEN NoBox ELSE _merge_boxes(ValidBoxes(chars))

Abs(v) == IF v < 0 THEN 0 - v ELSE v

(* the loop of _build_line_boxes; center2 is twice the vertical center,
   has_prev says prev_center is not None *)
RECURSIVE _build_line_boxes_loop(_, _, _, _, _)
_build_line_boxes_loop(chars, lines, current, has_prev, prev_center2) ==
    IF chars = << >>
    THEN IF current # << >> THEN Append(lines, current) ELSE lines
    ELSE LET bbox == Head(chars).bbox IN
         IF bbox = NoBox
         THEN _build_line_boxes_loop(Tail(chars), lines, current, has_prev, prev_center2)
         ELSE LET center2 == bbox[2] + bbox[4] IN
              IF ~has_prev \/ Abs(center2 - prev_center2) <= 2 * LineThreshold * 1000
              THEN _build_line_boxes_loop(Tail(chars), lines, Append(current, bbox),
                                          TRUE, center2)
              ELSE _build_line_boxes_loop(Tail(chars),
                       IF current # << >> THEN Append(lines, current) ELSE lines,
                       << bbox >>, TRUE, center2)

_build_line_boxes(chars) ==
    LET lines == _build_line_boxes_loop(chars, << >>, << >>, FALSE, 0)
    IN [k \in 1 .. Len(lines) |-> _merge_boxes(lines[k])]

(* [text_with_positions[idx] for idx in original_indices if 0 <= idx < len(...)] *)
RECURSIVE CharInfos(_, _)
CharInfos(twp, original_indices) ==
    IF original_indices = << >> THEN << >>
    ELSE IF 0 <= Head(original_indices) /\ Head(original_indices) < Len(twp)
    THEN << At(twp, Head(original_indices)) >> \o CharInfos(twp, Tail(original_indices))
    ELSE CharInfos(twp, Tail(original_indices))

(* the boxes one error is annotated with: line boxes, else the aggregate box, else [None] *)
LineBoxesOrNone(char_infos) ==
    IF _build_line_boxes(char_infos) # << >> THEN _build_line_boxes(char_infos)
    ELSE IF _aggregate_bbox(char_infos) # NoBox THEN << _aggregate_bbox(char_infos) >>
    ELSE << NoBox >>

(* (error['wrong'], first_char_info['page'], rounded box or None) *)
AnnotationKey(wrong, page, box) ==
    << wrong, page, [k \in 1 .. Len(box) |-> Round2(box[k])] >>

NewAnnotation(error, page, box) ==
    [wrong |-> error.wrong, correct |-> error.correct, help |-> error.help,
     category |-> error.category, page |-> page, bbox |-> box]

(* "for box in line_boxes" on annotations and seen_keys *)
RECURSIVE AnnotateBoxes(_, _, _, _)
AnnotateBoxes(st, error, page, line_boxes) ==
    IF line_boxes = << >> THEN st
    ELSE LET box == Head(line_boxes)
             key == AnnotationKey(error.wrong, page, box)
         IN IF key \in st.seen_keys
            THEN AnnotateBoxes(st, error, page, Tail(line_boxes))
            ELSE AnnotateBoxes([annotations |-> Append(st.annotations,
                                                       NewAnnotation(error, page, box)),
                                seen_keys |-> st.seen_keys \cup {key}],
                               error, page, Tail(line_boxes))

(* variant: an error whose span resolves to nothing is dropped *)
AnnotateError_drops_unresolved(st, error, mapping, twp) ==
    LET cleaned_start == error.position
        cleaned_end == cleaned_start + error.length
        original_indices == get_original_positions(mapping, cleaned_start, cleaned_end)
    IN IF original_indices # << >>
       THEN LET first_idx == Head(original_indices) IN
            IF first_idx < Len(twp)
            THEN AnnotateBoxes(st, error, At(twp, first_idx).page,
                               LineBoxesOrNone(CharInfos(twp, original_indices)))
            ELSE st
       ELSE st

(* one iteration of "for error in errors" of _create_annotations *)
AnnotateError(st, error, mapping, twp) ==
    LET cleaned_start == error.position
        cleaned_end == cleaned_start + error.length
        original_indices == get_original_positions(mapping, cleaned_start, cleaned_end)
    IN IF original_indices # << >>
       THEN LET first_idx == Head(original_indices) IN
            IF first_idx < Len(twp)
            THEN AnnotateBoxes(st, error, At(twp, first_idx).page,
                               LineBoxesOrNone(CharInfos(twp, original_indices)))
            ELSE st
       ELSE [annotations |-> Append(st.annotations, NewAnnotation(error, 1, NoBox)),
             seen_keys |-> st.seen_keys]

RECURSIVE _create_annotations_loop(_, _, _, _)
_create_annotations_loop(st, errs, mapping, twp) ==
    IF errs = << >> THEN st
    ELSE _create_annotations_loop(AnnotateError(st, Head(errs), mapping, twp),
                                  Tail(errs), mapping, twp)

_create_annotations(errs, mapping, twp) ==
    _create_annotations_loop([annotations |-> << >>, seen_keys |-> {}],
                             errs, mapping, twp).annotations

-----------------------------------------------------------------------------
(* Inputs.                                                                 *)

MaxLen == 4
MaxParticleLen == 5
MaxDocLen == 4
MaxErrorsPerCall == 1
MaxChars == 2
MaxErrors == 2
MaxTail == 5

(* the minimum of non-whitespace characters process() asks for; set through
   OCR_EXCEPTION_TEXT_LENGTH, never below 1 *)
ocr_exception_text_length == 1

Texts(alphabet, n) == UNION {[1 .. k -> alphabet] : k \in 0 .. n}

(* '사' (a syllable that is no particle), '를' (a particle), ' ', '\n', '-', '.',
   'a', U+0001 (a control character), U+F0B7 (a private-use bullet) *)
NormAlphabet == {49324, 47484, 32, 10, 45, 46, 97, 1, 61623}

(* '사', '를', '에', '서', ' ' *)
ParticleAlphabet == {49324, 47484, 50640, 49436, 32}

MaxPrefix == 3

(* a word broken over two lines, '사' '\n' '사', after up to MaxPrefix of
   '.', '?', 'a', '사' *)
BreakTexts == {t \o << 49324, 10, 49324 >> : t \in Texts({46, 63, 97, 49324}, MaxPrefix)}

MaxSuffix == 2

(* '사' ' ' '에' '서', where both "에" and "에서" match, and up to MaxSuffix
   characters after it *)
TieTexts == {<< 49324, 32, 50640, 49436 >> \o t : t \in Texts(ParticleAlphabet, MaxSuffix)}

NormTexts ==
    Texts(NormAlphabet, MaxLen) \cup Texts(ParticleAlphabet, MaxParticleLen)
        \cup BreakTexts \cup TieTexts

(* '사', ' ', '\n', '-' *)
DocAlphabet == {49324, 32, 10, 45}

(* the records an extractor of the repository builds for a one-page document:
   no 'bbox' key *)
PlainRecords(raw) == [j \in 1 .. Len(raw) |-> [char |-> raw[j], page |-> 1, bbox |-> NoBox]]

(* ''.join(raw_text_parts) *)
JoinChars(twp) == [j \in 1 .. Len(twp) |-> twp[j].char]

(* sum(1 for c in raw_text if not c.isspace()) *)
NonWhitespaceChars(raw) == Cardinality({j \in 1 .. Len(raw) : ~IsWhitespace(raw[j])})

(* what the external checker may answer for one text: errors at spans of the
   text, 'wrong' the flagged substring, 'length' its length *)
SpanError(text, p, n) ==
    [wrong |-> Slice(text, p, p + n), correct |-> "corrected", help |-> "",
     category |-> "GRAMMAR", position |-> p, length |-> n]

SpanErrors(text) ==
    {SpanError(text, p, n) : p \in 0 .. (Len(text) - 1), n \in 1 .. Len(text)}
        \cap {SpanError(text, p, Len(text) - p - d) : p \in 0 .. (Len(text) - 1),
                                                     d \in 0 .. (Len(text) - 1)}

CheckerResponses(text, most) ==
    IF Strip(text) = << >> THEN {<< >>}
    ELSE UNION {[1 .. k -> SpanErrors(text)] : k \in 0 .. most}

(* boxes of two glyphs printed almost on top of each other (A, A2), of the
   next glyph on their line (C) and of a glyph on another line (B), in
   thousandths of a page unit *)
BoxA == << 0, 0, 10000, 10000 >>
BoxA2 == << 4, 0, 10004, 10000 >>
BoxC == << 10000, 0, 20000, 10000 >>
BoxB == << 0, 20000, 10000, 30000 >>

(* a control character has no glyph; a syllable has a box or none *)
GlyphChoices ==
    {[char |-> 1, bbox |-> NoBox]}
        \cup {[char |-> 49324, bbox |-> b] : b \in {NoBox, BoxA, BoxA2, BoxC, BoxB}}

(* page numbers are 1-based and do not decrease: page 2 starts at index first2 *)
BoxedRecords(glyphs, first2) ==
    [j \in 1 .. Len(glyphs) |->
        [char |-> glyphs[j].char, page |-> IF j - 1 < first2 THEN 1 ELSE 2,
         bbox |-> glyphs[j].bbox]]

ReconcileDocs ==
    UNION {{BoxedRecords(g, f) : g \in [1 .. k -> GlyphChoices], f \in 0 .. k} :
           k \in 0 .. MaxChars}

(* '.', '\n', 'a' after a run of 'a' *)
TailAlphabet == {46, 10, 97}
FillerLengths == {0, 297, 300, 301}
SplitTexts ==
    {[j \in 1 .. n |-> 97] \o t : n \in FillerLengths, t \in Texts(TailAlphabet, MaxTail)}

-----------------------------------------------------------------------------
(* process(): extraction, the text-length check, normalization, the        *)
(* paragraph checks, annotation building.                                  *)

(* the dicts process() returns.  A message is its fixed text and, for the
   failure dict, str(e) of the exception caught *)
NoResult ==
    [success |-> FALSE, errors_found |-> 0, output_pdf |-> "",
     message |-> [text |-> "", detail |-> ""]]

(* variant: too little text is reported with the dict of the exception handler *)
UnreadableResult_generic ==
    [success |-> FALSE, errors_found |-> 0, output_pdf |-> "None",
     message |-> [text |-> "error while processing: ", detail |-> "too little text"]]

UnreadableResult ==
    [success |-> FALSE, errors_found |-> 0, output_pdf |-> "None",
     message |-> [text |-> "too little text was extracted to analyse", detail |-> ""]]

NoErrorsResult ==
    [success |-> TRUE, errors_found |-> 0, output_pdf |-> "None",
     message |-> [text |-> "no spelling errors were found", detail |-> ""]]

SuccessResult(n) ==
    [success |-> TRUE, errors_found |-> n, output_pdf |-> "output_pdf_path",
     message |-> [text |-> "spelling errors were found", detail |-> ""]]

(* variant: the exception handler reports the output path it was given *)
FailureResult_keeps_output(e) ==
    [success |-> FALSE, errors_found |-> 0, output_pdf |-> "output_pdf_path",
     message |-> [text |-> "error while processing: ", detail |-> e]]

FailureResult(e) ==
    [success |-> FALSE, errors_found |-> 0, output_pdf |-> "None",
     message |-> [text |-> "error while processing: ", detail |-> e]]

(* how extraction fails: _extract_text_with_autodetect re-raises, or returns
   something falsy and process() raises RuntimeError *)
ExtractionFailures == {"extractor raised", "extraction returned nothing"}

(* variant: the handler returns an error it had parsed before the failure *)
BareunCheckAfterFailure_partial ==
    << [wrong |-> << 49324 >>, correct |-> "corrected", help |-> "",
        category |-> "GRAMMAR", position |-> 0, length |-> 1] >>

(* what BareunSpellChecker.check returns when the API call raises *)
BareunCheckAfterFailure == << >>

Idle == [i |-> 0, paragraphs |-> << >>, current_para |-> << >>, current_start |-> 0]

Init ==
    /\ pc = "extract"
    /\ raw_text = << >>
    /\ text_with_positions = << >>
    /\ paragraphs = << >>
    /\ cleaned_text = << >>
    /\ anchor_map = EmptyDict
    /\ responses = << >>
    /\ errors = << >>
    /\ annotations = << >>
    /\ split = Idle
    /\ process_result = NoResult
    /\ calls = << >>
    /\ requests = << >>

(* _extract_text_with_autodetect returns paragraphs, text_with_positions, raw_text *)
Extract ==
    /\ pc = "extract"
    /\ \E raw \in Texts(DocAlphabet, MaxDocLen) :
          /\ raw_text' = raw
          /\ text_with_positions' = PlainRecords(raw)
          /\ paragraphs' = _split_into_paragraphs(PlainRecords(raw), raw)
    /\ pc' = "extracted"
    /\ calls' = Append(calls, "extract")
    /\ UNCHANGED << cleaned_text, anchor_map, responses, errors, annotations, split,
                    process_result, requests >>

(* the extractor raises, or returns nothing and process() raises RuntimeError:
   "except Exception" builds the failure dict *)
ExtractFails ==
    /\ pc = "extract"
    /\ \E e \in ExtractionFailures : process_result' = FailureResult(e)
    /\ pc' = "failed"
    /\ calls' = Append(calls, "extract")
    /\ UNCHANGED << raw_text, text_with_positions, paragraphs, cleaned_text, anchor_map,
                    responses, errors, annotations, split, requests >>

(* text_stats['non_whitespace_chars'] < self.ocr_exception_text_length *)
InsufficientText ==
    /\ pc = "extracted"
    /\ NonWhitespaceChars(raw_text) < ocr_exception_text_length
    /\ pc' = "unreadable"
    /\ process_result' = UnreadableResult
    /\ UNCHANGED << raw_text, text_with_positions, paragraphs, cleaned_text, anchor_map,
                    responses, errors, annotations, split, calls, requests >>

Preprocess ==
    /\ pc = "extracted"
    /\ ~(NonWhitespaceChars(raw_text) < ocr_exception_text_length)
    /\ cleaned_text' = preprocess(raw_text).text
    /\ anchor_map' = preprocess(raw_text).mapping
    /\ pc' = "check"
    /\ calls' = Append(calls, "preprocess")
    /\ UNCHANGED << raw_text, text_with_positions, paragraphs, responses, errors,
                    annotations, split, process_result, requests >>

(* one iteration of the loop of check_paragraphs: a blank paragraph is skipped,
   any other is sent to the checker and its errors are rebiased and appended *)
CheckParagraph ==
    /\ pc = "check"
    /\ Len(responses) < Len(paragraphs)
    /\ LET para == paragraphs[Len(responses) + 1] IN
       \E para_errors \in CheckerResponses(para.text, MaxErrorsPerCall) :
          /\ responses' = Append(responses, para_errors)
          /\ errors' = IF Strip(para.text) = << >> THEN errors
                       ELSE RebiasAll(errors, para_errors, para)
          /\ calls' = IF Strip(para.text) = << >> THEN calls ELSE Append(calls, "check")
    /\ UNCHANGED << pc, raw_text, text_with_positions, paragraphs, cleaned_text,
                    anchor_map, annotations, split, process_result, requests >>

(* the same iteration when the call of the Bareun API raises:
   BareunSpellChecker.check catches the exception and returns [] *)
CheckParagraphFails ==
    /\ pc = "check"
    /\ Len(responses) < Len(paragraphs)
    /\ LET para == paragraphs[Len(responses) + 1] IN
          /\ Strip(para.text) # << >>
          /\ responses' = Append(responses, BareunCheckAfterFailure)
          /\ errors' = RebiasAll(errors, BareunCheckAfterFailure, para)
    /\ calls' = Append(calls, "check failed")
    /\ UNCHANGED << pc, raw_text, text_with_positions, paragraphs, cleaned_text,
                    anchor_map, annotations, split, process_result, requests >>

(* if len(errors) == 0: return success with no output *)
NoErrors ==
    /\ pc = "check"
    /\ Len(responses) = Len(paragraphs)
    /\ Len(errors) = 0
    /\ pc' = "no_errors"
    /\ process_result' = NoErrorsResult
    /\ UNCHANGED << raw_text, text_with_positions, paragraphs, cleaned_text, anchor_map,
                    responses, errors, annotations, split, calls, requests >>

(* variant: the annotations are built whether or not an error was found *)
CreateAnnotations_unguarded ==
    /\ pc = "check"
    /\ Len(responses) = Len(paragraphs)
    /\ annotations' = _create_annotations(errors, anchor_map, text_with_positions)
    /\ pc' = "annotated"
    /\ calls' = Append(calls, "annotate")
    /\ UNCHANGED << raw_text, text_with_positions, paragraphs, cleaned_text, anchor_map,
                    responses, errors, split, process_result, requests >>

(* annotations = self._create_annotations(errors, preprocessor, text_with_positions) *)
CreateAnnotations ==
    /\ pc = "check"
    /\ Len(responses) = Len(paragraphs)
    /\ Len(errors) # 0
    /\ annotations' = _create_annotations(errors, anchor_map, text_with_positions)
    /\ pc' = "annotated"
    /\ calls' = Append(calls, "annotate")
    /\ UNCHANGED << raw_text, text_with_positions, paragraphs, cleaned_text, anchor_map,
                    responses, errors, split, process_result, requests >>

(* self._save_snapshot(...): a failed write is logged inside it, never raised *)
SaveSnapshot ==
    /\ pc = "annotated"
    /\ calls' = Append(calls, "snapshot")
    /\ pc' = "snapshot_saved"
    /\ UNCHANGED << raw_text, text_with_positions, paragraphs, cleaned_text, anchor_map,
                    responses, errors, annotations, split, process_result, requests >>

(* highlighter.add_highlights(annotations, ...) and the success dict *)
Highlight ==
    /\ pc = "snapshot_saved"
    /\ calls' = Append(calls, "highlight")
    /\ process_result' = SuccessResult(Len(annotations))
    /\ pc' = "done"
    /\ UNCHANGED << raw_text, text_with_positions, paragraphs, cleaned_text, anchor_map,
                    responses, errors, annotations, split, requests >>

(* the highlighter raises: "except Exception" builds the failure dict *)
HighlightFails ==
    /\ pc = "snapshot_saved"
    /\ calls' = Append(calls, "highlight")
    /\ process_result' = FailureResult("highlighter raised")
    /\ pc' = "failed"
    /\ UNCHANGED << raw_text, text_with_positions, paragraphs, cleaned_text, anchor_map,
                    responses, errors, annotations, split, requests >>

Next == Extract \/ ExtractFails \/ InsufficientText \/ Preprocess \/ CheckParagraph
            \/ CheckParagraphFails \/ NoErrors \/ CreateAnnotations \/ SaveSnapshot
            \/ Highlight \/ HighlightFails

Spec == Init /\ [][Next]_vars

-----------------------------------------------------------------------------
(* preprocess() on its own, over every short text.                         *)

InitNorm ==
    /\ pc = "normalize"
    /\ raw_text \in NormTexts
    /\ text_with_positions = PlainRecords(raw_text)
    /\ paragraphs = << >>
    /\ cleaned_text = << >>
    /\ anchor_map = EmptyDict
    /\ responses = << >>
    /\ errors = << >>
    /\ annotations = << >>
    /\ split = Idle
    /\ process_result = NoResult
    /\ calls = << >>
    /\ requests = << >>

Normalize ==
    /\ pc = "normalize"
    /\ cleaned_text' = preprocess(raw_text).text
    /\ anchor_map' = preprocess(raw_text).mapping
    /\ pc' = "normalized"
    /\ UNCHANGED << raw_text, text_with_positions, paragraphs, responses, errors,
                    annotations, split, process_result, calls, requests >>

NextNorm == Normalize

SpecNorm == InitNorm /\ [][NextNorm]_vars

-----------------------------------------------------------------------------
(* _create_annotations on its own: boxed characters on two pages and two   *)
(* lines, errors at any span of the text.                                  *)

InitReconcile ==
    /\ pc = "reconcile"
    /\ text_with_positions \in ReconcileDocs
    /\ raw_text = JoinChars(text_with_positions)
    /\ paragraphs = << >>
    /\ cleaned_text = preprocess(raw_text).text
    /\ anchor_map = preprocess(raw_text).mapping
    /\ responses = << >>
    /\ errors \in UNION {[1 .. k -> SpanErrors(raw_text)] : k \in 0 .. MaxErrors}
    /\ annotations = << >>
    /\ split = Idle
    /\ process_result = NoResult
    /\ calls = << >>
    /\ requests = << >>

Reconcile ==
    /\ pc = "reconcile"
    /\ annotations' = _create_annotations(errors, anchor_map, text_with_positions)
    /\ pc' = "reconciled"
    /\ UNCHANGED << raw_text, text_with_positions, paragraphs, cleaned_text, anchor_map,
                    responses, errors, split, process_result, calls, requests >>

NextReconcile == Reconcile

SpecReconcile == InitReconcile /\ [][NextReconcile]_vars

-----------------------------------------------------------------------------
(* _create_annotations on three characters of one page that change line    *)
(* back and forth, with one error.                                         *)

LineDocs ==
    {BoxedRecords(g, 3) :
        g \in [1 .. 3 -> {[char |-> 49324, bbox |-> b] :
                             b \in {NoBox, BoxA, BoxA2, BoxC, BoxB}}]}

InitLines ==
    /\ pc = "reconcile"
    /\ text_with_positions \in LineDocs
    /\ raw_text = JoinChars(text_with_positions)
    /\ paragraphs = << >>
    /\ cleaned_text = preprocess(raw_text).text
    /\ anchor_map = preprocess(raw_text).mapping
    /\ responses = << >>
    /\ errors \in {<< e >> : e \in SpanErrors(raw_text)}
    /\ annotations = << >>
    /\ split = Idle
    /\ process_result = NoResult
    /\ calls = << >>
    /\ requests = << >>

SpecLines == InitLines /\ [][NextReconcile]_vars

-----------------------------------------------------------------------------
(* _create_annotations on the records of the extractors of pdf_extractor.py: *)
(* 'x' and 'y' or None for both, never a 'bbox'.                            *)

(* None, or the x and y of a glyph, in thousandths of a page unit *)
NoPoint == [x |-> << >>, y |-> << >>]
PointA == [x |-> << 0 >>, y |-> << 10000 >>]
PointB == [x |-> << 0 >>, y |-> << 30000 >>]

PointGlyphs == {[char |-> c, at |-> p] : c \in {1, 49324}, p \in {NoPoint, PointA, PointB}}

PointRecords(glyphs, first2) ==
    [j \in 1 .. Len(glyphs) |->
        [char |-> glyphs[j].char, page |-> IF j - 1 < first2 THEN 1 ELSE 2,
         x |-> glyphs[j].at.x, y |-> glyphs[j].at.y, bbox |-> NoBox]]

PointDocs ==
    UNION {{PointRecords(g, f) : g \in [1 .. k -> PointGlyphs], f \in 0 .. k} :
           k \in 0 .. MaxChars}

InitPoints ==
    /\ pc = "reconcile"
    /\ text_with_positions \in PointDocs
    /\ raw_text = JoinChars(text_with_positions)
    /\ paragraphs = << >>
    /\ cleaned_text = preprocess(raw_text).text
    /\ anchor_map = preprocess(raw_text).mapping
    /\ responses = << >>
    /\ errors \in UNION {[1 .. k -> SpanErrors(raw_text)] : k \in 0 .. MaxErrors}
    /\ annotations = << >>
    /\ split = Idle
    /\ process_result = NoResult
    /\ calls = << >>
    /\ requests = << >>

SpecPoints == InitPoints /\ [][NextReconcile]_vars

-----------------------------------------------------------------------------
(* _create_annotations on one error whose span may leave the cleaned text. *)

MaxOutside == 2

(* an error at any offset from MaxOutside before the cleaned text to
   MaxOutside past its end, long enough to cover the text from there *)
OutOfRangeErrors(cleaned) ==
    {[wrong |-> << 49324 >>, correct |-> "corrected", help |-> "", category |-> "GRAMMAR",
      position |-> p, length |-> n] :
        p \in (0 - MaxOutside) .. (Len(cleaned) + MaxOutside),
        n \in 1 .. (Len(cleaned) + MaxOutside)}

InitOutOfRange ==
    /\ pc = "reconcile"
    /\ text_with_positions \in ReconcileDocs
    /\ raw_text = JoinChars(text_with_positions)
    /\ paragraphs = << >>
    /\ cleaned_text = preprocess(raw_text).text
    /\ anchor_map = preprocess(raw_text).mapping
    /\ responses = << >>
    /\ errors \in {<< e >> : e \in OutOfRangeErrors(preprocess(raw_text).text)}
    /\ annotations = << >>
    /\ split = Idle
    /\ process_result = NoResult
    /\ calls = << >>
    /\ requests = << >>

SpecOutOfRange == InitOutOfRange /\ [][NextReconcile]_vars

-----------------------------------------------------------------------------
(* _create_annotations inside process() on records that may lack the key   *)
(* 'wrong'.                                                                *)

(* the value of error['wrong'] standing for "the key is absent" *)
Missing == << -1 >>

WithoutWrong(error) == [error EXCEPT !.wrong = Missing]

MalformedErrors(text) == SpanErrors(text) \cup {WithoutWrong(e) : e \in SpanErrors(text)}

(* len(error['wrong']), evaluated for every error as the default argument of
   error.get('length', ...), raises KeyError when the key is absent *)
RaisesKeyError(errs) == \E k \in 1 .. Len(errs) : errs[k].wrong = Missing

InitMalformed ==
    /\ pc = "reconcile"
    /\ text_with_positions \in ReconcileDocs
    /\ raw_text = JoinChars(text_with_positions)
    /\ paragraphs = << >>
    /\ cleaned_text = preprocess(raw_text).text
    /\ anchor_map = preprocess(raw_text).mapping
    /\ responses = << >>
    /\ errors \in UNION {[1 .. k -> MalformedErrors(raw_text)] : k \in 1 .. MaxErrors}
    /\ annotations = << >>
    /\ split = Idle
    /\ process_result = NoResult
    /\ calls = << >>
    /\ requests = << >>

(* the call returns: no error of the list lacks 'wrong' *)
CreateAnnotationsReturns ==
    /\ pc = "reconcile"
    /\ ~RaisesKeyError(errors)
    /\ annotations' = _create_annotations(errors, anchor_map, text_with_positions)
    /\ pc' = "annotated"
    /\ UNCHANGED << raw_text, text_with_positions, paragraphs, cleaned_text, anchor_map,
                    responses, errors, split, process_result, calls, requests >>

(* the call raises: the local list of annotations is lost with the frame *)
CreateAnnotationsRaises ==
    /\ pc = "reconcile"
    /\ RaisesKeyError(errors)
    /\ pc' = "raised"
    /\ UNCHANGED << raw_text, text_with_positions, paragraphs, cleaned_text, anchor_map,
                    responses, errors, annotations, split, process_result, calls, requests >>

(* "except Exception as e" of process() *)
CatchException ==
    /\ pc = "raised"
    /\ process_result' = FailureResult("KeyError: 'wrong'")
    /\ pc' = "failed"
    /\ UNCHANGED << raw_text, text_with_positions, paragraphs, cleaned_text, anchor_map,
                    responses, errors, annotations, split, calls, requests >>

NextMalformed ==
    CreateAnnotationsReturns \/ CreateAnnotationsRaises \/ CatchException \/ SaveSnapshot
        \/ Highlight \/ HighlightFails

SpecMalformed == InitMalformed /\ [][NextMalformed]_vars

-----------------------------------------------------------------------------
(* Two process() calls in flight on the processor of app.py, their steps   *)
(* interleaved.  Everything a call works on is a local of process() or of  *)
(* _create_annotations, or an object built inside the call.                *)

MaxCallChars == 1
MaxCallErrors == 2

Callers == {1, 2}

(* one-page documents of '사', every glyph with the same box or none *)
CallDocs ==
    UNION {{BoxedRecords(g, k) : g \in [1 .. k -> {[char |-> 49324, bbox |-> b] :
                                                      b \in {NoBox, BoxA}}]} :
           k \in 1 .. MaxCallChars}

(* errors on single characters of the text *)
CallErrors(text) ==
    UNION {[1 .. k -> {SpanError(text, p, 1) : p \in 0 .. (Len(text) - 1)}] :
           k \in 0 .. MaxCallErrors}

(* the locals of a call that has not started *)
NotStarted ==
    [pc |-> "extract", text_with_positions |-> << >>, raw_text |-> << >>,
     paragraphs |-> << >>, anchor_map |-> EmptyDict, errors |-> << >>, next |-> 1,
     annotations |-> << >>, seen_keys |-> {}]

(* variant: seen_keys is one set for all calls of the processor *)
SeenKeysOf_shared(reqs, c) == UNION {reqs[d].seen_keys : d \in DOMAIN reqs}

(* seen_keys = set(), a local of the call of _create_annotations *)
SeenKeysOf(reqs, c) == reqs[c].seen_keys

InitTwoCalls ==
    /\ pc = "serving"
    /\ raw_text = << >>
    /\ text_with_positions = << >>
    /\ paragraphs = << >>
    /\ cleaned_text = << >>
    /\ anchor_map = EmptyDict
    /\ responses = << >>
    /\ errors = << >>
    /\ annotations = << >>
    /\ split = Idle
    /\ process_result = NoResult
    /\ calls = << >>
    /\ requests = [c \in Callers |-> NotStarted]

(* extraction and TextPreprocessor(text_with_positions, raw_text).preprocess() *)
CallExtract(c) ==
    /\ requests[c].pc = "extract"
    /\ \E twp \in CallDocs :
          requests' = [requests EXCEPT ![c] =
              [@ EXCEPT !.pc = "check",
                        !.text_with_positions = twp,
                        !.raw_text = JoinChars(twp),
                        !.paragraphs = _split_into_paragraphs(twp, JoinChars(twp)),
                        !.anchor_map = preprocess(JoinChars(twp)).mapping]]
    /\ UNCHANGED << pc, raw_text, text_with_positions, paragraphs, cleaned_text,
                    anchor_map, responses, errors, annotations, split, process_result,
                    calls >>

(* self.spell_checker.check_paragraphs(paragraphs) and the entry of
   _create_annotations *)
CallCheck(c) ==
    /\ requests[c].pc = "check"
    /\ \E errs \in CallErrors(requests[c].raw_text) :
          requests' = [requests EXCEPT ![c] =
              [@ EXCEPT !.pc = "annotate", !.errors = errs, !.next = 1,
                        !.annotations = << >>, !.seen_keys = {}]]
    /\ UNCHANGED << pc, raw_text, text_with_positions, paragraphs, cleaned_text,
                    anchor_map, responses, errors, annotations, split, process_result,
                    calls >>

(* one iteration of "for error in errors" of the call's _create_annotations *)
CallAnnotate(c) ==
    /\ requests[c].pc = "annotate"
    /\ requests[c].next <= Len(requests[c].errors)
    /\ LET st == AnnotateError([annotations |-> requests[c].annotations,
                                seen_keys |-> SeenKeysOf(requests, c)],
                               requests[c].errors[requests[c].next],
                               requests[c].anchor_map, requests[c].text_with_positions)
       IN requests' = [requests EXCEPT ![c] =
              [@ EXCEPT !.next = @ + 1,
                        !.annotations = st.annotations,
                        !.seen_keys = st.seen_keys]]
    /\ UNCHANGED << pc, raw_text, text_with_positions, paragraphs, cleaned_text,
                    anchor_map, responses, errors, annotations, split, process_result,
                    calls >>

(* return annotations *)
CallReturn(c) ==
    /\ requests[c].pc = "annotate"
    /\ ~(requests[c].next <= Len(requests[c].errors))
    /\ requests' = [requests EXCEPT ![c] = [@ EXCEPT !.pc = "done"]]
    /\ UNCHANGED << pc, raw_text, text_with_positions, paragraphs, cleaned_text,
                    anchor_map, responses, errors, annotations, split, process_result,
                    calls >>

NextTwoCalls ==
    \E c \in Callers : CallExtract(c) \/ CallCheck(c) \/ CallAnnotate(c) \/ CallReturn(c)

SpecTwoCalls == InitTwoCalls /\ [][NextTwoCalls]_vars

-----------------------------------------------------------------------------
(* _split_into_paragraphs, one loop iteration per step, on texts long      *)
(* enough for the 300-character rule.                                      *)

InitSplit ==
    /\ pc = "split"
    /\ raw_text \in SplitTexts
    /\ text_with_positions = PlainRecords(raw_text)
    /\ paragraphs = << >>
    /\ cleaned_text = << >>
    /\ anchor_map = EmptyDict
    /\ responses = << >>
    /\ errors = << >>
    /\ annotations = << >>
    /\ split = Idle
    /\ process_result = NoResult
    /\ calls = << >>
    /\ requests = << >>

SplitIteration ==
    /\ pc = "split"
    /\ split.i < Len(raw_text)
    /\ LET st == SplitStep(split, text_with_positions, raw_text, split.i) IN
       split' = [i |-> split.i + 1, paragraphs |-> st.paragraphs,
                 current_para |-> st.current_para, current_start |-> st.current_start]
    /\ UNCHANGED << pc, raw_text, text_with_positions, paragraphs, cleaned_text,
                    anchor_map, responses, errors, annotations, process_result, calls,
                    requests >>

SplitReturn ==
    /\ pc = "split"
    /\ ~(split.i < Len(raw_text))
    /\ paragraphs' = SplitFinish(split, text_with_positions, raw_text)
    /\ pc' = "split_done"
    /\ UNCHANGED << raw_text, text_with_positions, cleaned_text, anchor_map, responses,
                    errors, annotations, split, process_result, calls, requests >>

NextSplit == SplitIteration \/ SplitReturn

SpecSplit == InitSplit /\ [][NextSplit]_vars

-----------------------------------------------------------------------------
(* Properties of the normalizer, stated on raw_text, cleaned_text and       *)
(* anchor_map after preprocess().                                           *)

Normalized == pc = "normalized"

RawIndices == 0 .. (Len(raw_text) - 1)

(* the original indices some cleaned offset maps to *)
Anchored(mapping) ==
    UNION {{mapping[k][j] : j \in 1 .. Len(mapping[k])} : k \in DOMAIN mapping}

(* cleaned offsets k and k + 1 are anchored to exactly the original indices a and b *)
AdjacentInCleaned(a, b) ==
    \E k \in DOMAIN anchor_map :
        /\ k + 1 \in DOMAIN anchor_map
        /\ anchor_map[k] = << a >>
        /\ anchor_map[k + 1] = << b >>

(* C2: after preprocess() on any raw text, the empty one included, the keys of
   the anchor map are exactly 0 .. len(cleaned_text) - 1 and every entry is a
   non-empty list of original indices in 0 .. len(raw_text) - 1. *)
C2_AnchorMapCoversCleanedText ==
    Normalized =>
        /\ DOMAIN anchor_map = 0 .. (Len(cleaned_text) - 1)
        /\ \A k \in DOMAIN anchor_map :
              /\ Len(anchor_map[k]) >= 1
              /\ \A j \in 1 .. Len(anchor_map[k]) : anchor_map[k][j] \in RawIndices

(* a text that lost characters and kept others *)
C2_Witness ==
    /\ Normalized
    /\ 0 < Len(cleaned_text)
    /\ Len(cleaned_text) < Len(raw_text)
    /\ DOMAIN anchor_map = 0 .. (Len(cleaned_text) - 1)

(* the stage of preprocess() (0 .. 5) whose output is the first without the
   original index j; 6 when j is still anchored at the end *)
DroppedAtStage(raw, j) ==
    IF j \notin Anchored(AfterNoise(raw).mapping) THEN 0
    ELSE IF j \notin Anchored(AfterHyphens(raw).mapping) THEN 1
    ELSE IF j \notin Anchored(AfterWordBreaks(raw).mapping) THEN 2
    ELSE IF j \notin Anchored(AfterParticles(raw).mapping) THEN 3
    ELSE IF j \notin Anchored(AfterSentenceBreaks(raw).mapping) THEN 4
    ELSE IF j \notin Anchored(preprocess(raw).mapping) THEN 5
    ELSE 6

(* the documented drops: a control character or NUL at stage 0, a hyphen or the
   newline after it at stage 1, a newline at stage 2, a space (or the marker
   glyph stage 0 turned into one) at stage 3, a space, a marker glyph or a
   newline turned into a space at stage 5; stage 4 drops nothing *)
DocumentedDrop(raw, j) ==
    LET char == At(raw, j)
        stage == DroppedAtStage(raw, j)
        marker == PUA_FIRST <= char /\ char <= PUA_LAST
    IN \/ stage = 0 /\ char < FIRST_PRINTABLE
                    /\ char \notin {NEWLINE, TAB, CARRIAGE_RETURN}
       \/ stage = 1 /\ char \in {HYPHEN, NEWLINE}
       \/ stage = 2 /\ char = NEWLINE
       \/ stage = 3 /\ (char = SPACE \/ marker)
       \/ stage = 5 /\ (char \in {SPACE, NEWLINE} \/ marker)

(* C3: every original index that no cleaned offset reaches belongs to a
   character dropped by a documented rule (control character or NUL, hyphen
   before a newline or that newline, newline of a word-break merge, space
   before a particle, surplus space of a collapsed run); no other character,
   in particular no other newline, is lost without an anchor. *)
C3_NoSilentLoss ==
    Normalized =>
        \A j \in RawIndices : j \notin Anchored(anchor_map) => DocumentedDrop(raw_text, j)

(* the hyphens of the raw text that a newline follows immediately *)
HyphenBreaks == {i \in RawIndices : /\ i + 1 \in RawIndices
                                     /\ At(raw_text, i) = HYPHEN
                                     /\ At(raw_text, i + 1) = NEWLINE}

(* C4 as stated: each hyphen immediately followed by a newline is removed with
   that newline, neither index is reachable, the character after the pair is
   anchored to its own original index and the characters on both sides of the
   pair are adjacent in the cleaned text. *)
C4_HyphenBreakJoinsNeighbours ==
    Normalized =>
        \A i \in HyphenBreaks :
            /\ i \notin Anchored(anchor_map)
            /\ i + 1 \notin Anchored(anchor_map)
            /\ i + 2 \in RawIndices =>
                  \E k \in DOMAIN anchor_map : anchor_map[k] = << i + 2 >>
            /\ (i - 1 \in RawIndices /\ i + 2 \in RawIndices) =>
                  AdjacentInCleaned(i - 1, i + 2)

(* C4, amended: the hyphen and the newline are always removed and unreachable;
   the character after the pair is anchored to its own index alone, and the
   characters on both sides are adjacent, whenever later stages keep them. *)
C4_HyphenBreakJoinsSurvivors ==
    Normalized =>
        \A i \in HyphenBreaks :
            /\ i \notin Anchored(anchor_map)
            /\ i + 1 \notin Anchored(anchor_map)
            /\ i + 2 \in Anchored(anchor_map) =>
                  \E k \in DOMAIN anchor_map : anchor_map[k] = << i + 2 >>
            /\ (i - 1 \in Anchored(anchor_map) /\ i + 2 \in Anchored(anchor_map)) =>
                  AdjacentInCleaned(i - 1, i + 2)

(* "사-\n사" gives "사사" with anchor_map[1] = [3] *)
C4_Witness ==
    /\ Normalized
    /\ raw_text = << 49324, HYPHEN, NEWLINE, 49324 >>
    /\ cleaned_text = << 49324, 49324 >>
    /\ anchor_map[1] = << 3 >>

(* a Korean syllable, a newline, a Korean syllable at i, i + 1, i + 2 of the raw
   text, and no '.', '!' or '?' anywhere before the newline *)
WordBreaks ==
    {i \in RawIndices :
        /\ i + 2 \in RawIndices
        /\ _is_korean(At(raw_text, i))
        /\ At(raw_text, i + 1) = NEWLINE
        /\ _is_korean(At(raw_text, i + 2))
        /\ \A h \in 0 .. i : At(raw_text, h) \notin SentenceTerminals}

(* '.', '!' or '?' at i and a newline at i + 1 of the raw text *)
SentenceBreaks ==
    {i \in RawIndices : /\ i + 1 \in RawIndices
                         /\ At(raw_text, i) \in SentenceTerminals
                         /\ At(raw_text, i + 1) = NEWLINE}

(* C5: a single newline between two Korean syllables with no sentence-terminal
   punctuation before it is removed and the two syllables are adjacent in the
   cleaned text; a newline immediately after '.', '!' or '?' is never merged
   and appears as exactly one space in the cleaned text. *)
C5_WordBreakMergedSentenceBreakSpaced ==
    Normalized =>
        /\ \A i \in WordBreaks :
              /\ i + 1 \notin Anchored(anchor_map)
              /\ \E k \in DOMAIN anchor_map :
                    /\ k + 1 \in DOMAIN anchor_map
                    /\ anchor_map[k] = << i >>
                    /\ anchor_map[k + 1] = << i + 2 >>
                    /\ At(cleaned_text, k) = At(raw_text, i)
                    /\ At(cleaned_text, k + 1) = At(raw_text, i + 2)
        /\ \A i \in SentenceBreaks :
              \E k \in DOMAIN anchor_map :
                    /\ k + 1 \in DOMAIN anchor_map
                    /\ anchor_map[k] = << i >>
                    /\ At(cleaned_text, k) = At(raw_text, i)
                    /\ anchor_map[k + 1] = << i + 1 >>
                    /\ At(cleaned_text, k + 1) = SPACE
                    /\ k + 2 \in DOMAIN anchor_map => At(cleaned_text, k + 2) # SPACE

(* "사\n사" gives "사사" *)
C5_Witness ==
    /\ Normalized
    /\ raw_text = << 49324, NEWLINE, 49324 >>
    /\ cleaned_text = << 49324, 49324 >>
    /\ WordBreaks = {0}

(* a particle of the list starts at index a of the text *)
ParticleAt(text, a) ==
    \E p \in 1 .. Len(particles) :
        /\ a + Len(particles[p]) <= Len(text)
        /\ Slice(text, a, a + Len(particles[p])) = particles[p]

(* a Korean syllable at i, one space at i + 1, a particle at i + 2 *)
ParticleGaps ==
    {i \in RawIndices : /\ i + 2 \in RawIndices
                         /\ _is_korean(At(raw_text, i))
                         /\ At(raw_text, i + 1) = SPACE
                         /\ ParticleAt(raw_text, i + 2)}

(* a space between two letters or syllables, the second one not starting a particle *)
OtherGaps ==
    {i \in RawIndices : /\ i + 2 \in RawIndices
                         /\ (_is_korean(At(raw_text, i)) \/ At(raw_text, i) = 97)
                         /\ At(raw_text, i + 1) = SPACE
                         /\ (_is_korean(At(raw_text, i + 2)) \/ At(raw_text, i + 2) = 97)
                         /\ ~ParticleAt(raw_text, i + 2)}

(* C6: a Korean syllable followed by exactly one space followed by a particle of
   the list has that space removed, a space not followed by a particle is
   retained, and every surviving character is anchored to its own original
   index. *)
C6_ParticleReattached ==
    Normalized =>
        /\ \A i \in ParticleGaps :
              /\ i + 1 \notin Anchored(anchor_map)
              /\ AdjacentInCleaned(i, i + 2)
        /\ \A i \in OtherGaps :
              \E k \in DOMAIN anchor_map :
                    anchor_map[k] = << i + 1 >> /\ At(cleaned_text, k) = SPACE
        /\ \A k \in DOMAIN anchor_map : Len(anchor_map[k]) = 1

-----------------------------------------------------------------------------
(* Properties of process(): the checker's answers are in responses, one per  *)
(* paragraph checked so far.                                                 *)

(* the answer to paragraph k with every position moved by the paragraph's start_index *)
Moved(k) ==
    [j \in 1 .. Len(responses[k]) |->
        [responses[k][j] EXCEPT
            !.position = paragraphs[k].start_index + responses[k][j].position]]

(* the moved answers to paragraphs 1 .. k, one after the other *)
RECURSIVE MovedUpTo(_)
MovedUpTo(k) == IF k = 0 THEN << >> ELSE MovedUpTo(k - 1) \o Moved(k)

(* C9: check_paragraphs returns the concatenation, in paragraph order, of every
   paragraph's checker errors, each with position = the paragraph's start_index
   + the position the checker reported for the paragraph's text. *)
C9_ErrorsConcatenatedAndRebiased ==
    errors = MovedUpTo(Len(responses))

(* two paragraphs with an error each, the second paragraph not at index 0 *)
C9_Witness ==
    /\ Len(paragraphs) = 2
    /\ Len(responses) = 2
    /\ Len(responses[1]) = 1
    /\ Len(responses[2]) = 1
    /\ paragraphs[2].start_index > 0
    /\ Len(errors) = 2
    /\ errors[2].position = paragraphs[2].start_index + responses[2][1].position

(* the number of whitespace characters at the head of s *)
LeadingWhitespace(s) == Len(s) - Len(LStrip(s))

(* the raw indices of the characters the checker flagged with error e of
   paragraph k: the paragraph's text is its raw range without the whitespace
   at both ends *)
FlaggedIndices(k, e) ==
    LET first == paragraphs[k].start_index
                    + LeadingWhitespace(Slice(raw_text, paragraphs[k].start_index,
                                              Len(raw_text)))
                    + e.position
    IN [x \in 1 .. e.length |-> first + x - 1]

(* the indices _create_annotations resolves for the error: the span at the
   rebiased position, looked up through the anchor map *)
ResolvedIndices(k, e) ==
    get_original_positions(anchor_map, paragraphs[k].start_index + e.position,
                           paragraphs[k].start_index + e.position + e.length)

(* C1: for every error the checker reports at offset p (length n) of a
   paragraph's submitted text, the CharRecords resolved for it (position
   rebiased by start_index, then looked up through the anchor map) are exactly
   the records of the raw characters the checker flagged. *)
C1_ErrorsResolveToFlaggedCharacters ==
    pc \in {"check", "annotated", "snapshot_saved", "no_errors"} =>
        \A k \in 1 .. Len(responses) :
            \A j \in 1 .. Len(responses[k]) :
                CharInfos(text_with_positions, ResolvedIndices(k, responses[k][j]))
                    = [x \in 1 .. responses[k][j].length |->
                          At(text_with_positions,
                             FlaggedIndices(k, responses[k][j])[x])]

-----------------------------------------------------------------------------
(* Properties of _create_annotations, stated on errors, anchor_map,          *)
(* text_with_positions and the annotations returned.                         *)

Reconciled == pc = "reconciled"

(* the original indices the span of error e resolves to *)
SpanIndices(e) == get_original_positions(anchor_map, e.position, e.position + e.length)

(* the records at those indices *)
SpanChars(e) == CharInfos(text_with_positions, SpanIndices(e))

(* the boxes the records of the span carry *)
SpanBoxes(e) ==
    {SpanChars(e)[j].bbox : j \in {x \in 1 .. Len(SpanChars(e)) :
                                      SpanChars(e)[x].bbox # NoBox}}

(* min x0, min y0, max x1, max y1 over a set of boxes *)
UnionBox(boxes) ==
    << MinOf({b[1] : b \in boxes}), MinOf({b[2] : b \in boxes}),
       MaxOf({b[3] : b \in boxes}), MaxOf({b[4] : b \in boxes}) >>

Encloses(outer, inner) ==
    /\ outer[1] <= inner[1]
    /\ outer[2] <= inner[2]
    /\ outer[3] >= inner[3]
    /\ outer[4] >= inner[4]

(* enclosure of the coordinates rounded to 2 decimals *)
EnclosesRounded(outer, inner) ==
    /\ Round2(outer[1]) <= Round2(inner[1])
    /\ Round2(outer[2]) <= Round2(inner[2])
    /\ Round2(outer[3]) >= Round2(inner[3])
    /\ Round2(outer[4]) >= Round2(inner[4])

(* the annotations that carry the word of error e and the page of the first
   character its span resolves to *)
AnnotationsOf(e) ==
    {a \in 1 .. Len(annotations) :
        /\ annotations[a].wrong = e.wrong
        /\ annotations[a].page = At(text_with_positions, Head(SpanIndices(e))).page}

(* the boxed characters of the span follow each other on one line *)
OnOneLine(e) ==
    LET boxes == ValidBoxes(SpanChars(e)) IN
    \A j \in 1 .. (Len(boxes) - 1) :
        Abs((boxes[j][2] + boxes[j][4]) - (boxes[j + 1][2] + boxes[j + 1][4]))
            <= 2 * LineThreshold * 1000

(* C7 as stated: for an error whose span resolves to original characters there
   is an annotation whose page is the page of the first resolved character and
   whose bbox, when the characters carry boxes, encloses their union box. *)
C7_AnnotationEnclosesUnionBox ==
    Reconciled =>
        \A n \in 1 .. Len(errors) :
            SpanIndices(errors[n]) # << >> =>
                \E a \in AnnotationsOf(errors[n]) :
                    SpanBoxes(errors[n]) # {} =>
                        /\ annotations[a].bbox # NoBox
                        /\ Encloses(annotations[a].bbox, UnionBox(SpanBoxes(errors[n])))

(* C7, amended: for an error whose span resolves to original characters there
   is an annotation with the page of the first resolved character; every boxed
   character of the span lies inside the bbox of such an annotation, and when
   the boxed characters are on one line one such bbox encloses their union box,
   both up to the rounding of coordinates to 2 decimals. *)
C7_AnnotationsCoverSpanPerLine ==
    Reconciled =>
        \A n \in 1 .. Len(errors) :
            SpanIndices(errors[n]) # << >> =>
                /\ AnnotationsOf(errors[n]) # {}
                /\ \A box \in SpanBoxes(errors[n]) :
                      \E a \in AnnotationsOf(errors[n]) :
                          /\ annotations[a].bbox # NoBox
                          /\ EnclosesRounded(annotations[a].bbox, box)
                /\ (SpanBoxes(errors[n]) # {} /\ OnOneLine(errors[n])) =>
                      \E a \in AnnotationsOf(errors[n]) :
                          /\ annotations[a].bbox # NoBox
                          /\ EnclosesRounded(annotations[a].bbox,
                                             UnionBox(SpanBoxes(errors[n])))

(* one error over two boxed glyphs of one line, annotated with their union box *)
C7_Witness ==
    /\ Reconciled
    /\ Len(errors) = 1
    /\ errors[1].position = 0
    /\ errors[1].length = 2
    /\ SpanBoxes(errors[1]) = {BoxA, BoxC}
    /\ Len(annotations) = 1
    /\ annotations[1].page = text_with_positions[1].page
    /\ annotations[1].bbox = << 0, 0, 20000, 10000 >>

(* (wrong, page, bbox rounded to 2 decimals) of annotation a *)
KeyOf(a) ==
    << annotations[a].wrong, annotations[a].page,
       [k \in 1 .. Len(annotations[a].bbox) |-> Round2(annotations[a].bbox[k])] >>

(* C8: the annotation list never holds two annotations with the same (wrong,
   page, bbox rounded to 2 decimals) key; the same error submitted twice yields
   no more annotations than submitted once, whatever its span resolves to. *)
C8_NoDuplicateAnnotations ==
    Reconciled =>
        /\ \A a, b \in 1 .. Len(annotations) : a # b => KeyOf(a) # KeyOf(b)
        /\ (Len(errors) = 2 /\ errors[1] = errors[2]) =>
              annotations = _create_annotations(<< errors[1] >>, anchor_map,
                                                text_with_positions)

-----------------------------------------------------------------------------
(* Properties of _split_into_paragraphs, stated on the loop's locals.        *)

(* the character at index i is a newline that follows a newline, or a newline
   that follows '.', '?' or '!' when the paragraph accumulated since start,
   the newline included, has at least 300 characters *)
ClosingNewline(i, start) ==
    /\ i > 0
    /\ At(raw_text, i) = NEWLINE
    /\ \/ At(raw_text, i - 1) = NEWLINE
       \/ /\ i + 1 - start >= ParagraphSoftLimit
          /\ At(raw_text, i - 1) \in SentenceTerminals

(* the iteration on character i closed the paragraph: the accumulation is
   empty again and the next paragraph starts after i *)
ClosedAt(i) == split'.current_para = << >> /\ split'.current_start = i + 1

(* C10: _split_into_paragraphs closes the current paragraph at a newline exactly
   when the previous raw character is also a newline, or the accumulated
   paragraph has reached at least 300 characters and the character just before
   the newline is '.', '?' or '!'. *)
C10_ClosesExactlyAtClosingNewlines ==
    [][(pc = "split" /\ split'.i = split.i + 1) =>
          /\ ClosedAt(split.i) <=> ClosingNewline(split.i, split.current_start)
          /\ ~ClosedAt(split.i) =>
                /\ split'.current_start = split.current_start
                /\ split'.current_para = Append(split.current_para,
                                                At(raw_text, split.i))
                /\ split'.paragraphs = split.paragraphs]_vars

(* a 305-character text with '.' at character 301, a newline after it and no
   blank line, split at that newline *)
C10_Witness ==
    /\ pc = "split_done"
    /\ Len(raw_text) = 305
    /\ At(raw_text, 300) = 46
    /\ At(raw_text, 301) = NEWLINE
    /\ \A i \in 1 .. 304 : ~(At(raw_text, i) = NEWLINE /\ At(raw_text, i - 1) = NEWLINE)
    /\ Len(paragraphs) = 2
    /\ paragraphs[1].start_index = 0
    /\ paragraphs[1].end_index = 301
    /\ paragraphs[2].start_index = 302

(* start_index < end_index <= len(raw_text) for every paragraph of ps, and each
   paragraph ends before the next one starts *)
WellOrdered(ps) ==
    /\ \A k \in 1 .. Len(ps) :
          /\ ps[k].start_index < ps[k].end_index
          /\ ps[k].end_index <= Len(raw_text)
    /\ \A a, b \in 1 .. Len(ps) :
          a < b => /\ ps[a].start_index < ps[b].start_index
                   /\ ps[a].end_index <= ps[b].start_index

(* C11: the paragraphs emitted by _split_into_paragraphs satisfy
   start_index < end_index <= len(raw_text), are pairwise non-overlapping and
   appear in strictly increasing start_index order. *)
C11_ParagraphsWellOrdered ==
    /\ WellOrdered(split.paragraphs)
    /\ WellOrdered(paragraphs)

(* two paragraphs returned, with a blank line between them *)
C11_Witness ==
    /\ pc = "split_done"
    /\ Len(paragraphs) = 2
    /\ paragraphs[1].start_index = 0
    /\ paragraphs[1].end_index < paragraphs[2].start_index
    /\ paragraphs[2].end_index = Len(raw_text)

(* C12: an error record without 'wrong' is skipped: the annotations are those of
   the other errors of the list, and process() does not return the failure
   dict because of it *)
HasWrong(error) == error.wrong # Missing

C12_MalformedErrorSkipped ==
    /\ pc \in {"annotated", "raised", "failed", "done"} =>
          annotations = _create_annotations(SelectSeq(errors, HasWrong), anchor_map,
                                            text_with_positions)
    /\ process_result # FailureResult("KeyError: 'wrong'")

-----------------------------------------------------------------------------
(* Errors whose span resolves to nothing.                                   *)

Unresolved(e) == SpanIndices(e) = << >>

(* the annotation of an error that could not be placed *)
Fallback(e) ==
    [wrong |-> e.wrong, correct |-> e.correct, help |-> e.help, category |-> e.category,
     page |-> 1, bbox |-> NoBox]

(* C13: every error whose span resolves to no original index yields one
   annotation with page 1 and no box that carries its wrong, correct, help and
   category: the list holds at least as many such annotations as there are
   unresolved errors with these fields, so none of them is dropped *)
C13_UnresolvedErrorGetsFallback ==
    Reconciled =>
        \A k \in 1 .. Len(errors) :
            Unresolved(errors[k]) =>
                Cardinality({a \in 1 .. Len(annotations) :
                                annotations[a] = Fallback(errors[k])})
                    >= Cardinality({j \in 1 .. Len(errors) :
                                       /\ Unresolved(errors[j])
                                       /\ Fallback(errors[j]) = Fallback(errors[k])})

(* '\x01' '사': the cleaned text is "사"; the same error at offset 1 twice, past
   its end *)
C13_Witness ==
    /\ Reconciled
    /\ Len(raw_text) = 2
    /\ Len(cleaned_text) = 1
    /\ Len(errors) = 2
    /\ errors[1] = errors[2]
    /\ errors[1].position = 1
    /\ Unresolved(errors[1])
    /\ annotations = << Fallback(errors[1]), Fallback(errors[1]) >>

-----------------------------------------------------------------------------
(* Errors whose span leaves the cleaned text.                               *)

(* the offsets of the span of e that lie inside the cleaned text *)
InRangeOffsets(e) ==
    {i \in e.position .. (e.position + e.length - 1) : 0 <= i /\ i < Len(cleaned_text)}

Elements(seq) == {seq[j] : j \in 1 .. Len(seq)}

(* C14: for an error whose span lies partly or wholly outside the cleaned text,
   get_original_positions returns the original indices of the offsets of the
   span inside the text and nothing else, and _create_annotations returns: the
   error is annotated where its first resolved character is, or gets the
   fallback annotation when nothing resolves *)
C14_OutOfRangeSpanClipped ==
    LET e == errors[1]
        lo == Max(e.position, 0)
        hi == IF e.position + e.length < Len(cleaned_text) THEN e.position + e.length
              ELSE Len(cleaned_text)
    IN /\ Len(errors) = 1
       /\ SpanIndices(e) = get_original_positions(anchor_map, lo, hi)
       /\ Elements(SpanIndices(e)) = UNION {Elements(anchor_map[i]) : i \in InRangeOffsets(e)}
       /\ Reconciled =>
             IF InRangeOffsets(e) = {} THEN annotations = << Fallback(e) >>
             ELSE /\ annotations # << >>
                  /\ \A a \in 1 .. Len(annotations) :
                        /\ annotations[a].wrong = e.wrong
                        /\ annotations[a].page
                              = At(text_with_positions, Head(SpanIndices(e))).page

(* "사사" with an error at offset -1 of length 2: only offset 0 resolves *)
C14_Witness ==
    /\ Reconciled
    /\ Len(cleaned_text) = 2
    /\ errors[1].position = 0 - 1
    /\ errors[1].length = 2
    /\ SpanIndices(errors[1]) = << 0 >>
    /\ text_with_positions[1].bbox = BoxA
    /\ annotations = << [Fallback(errors[1]) EXCEPT !.bbox = BoxA] >>

-----------------------------------------------------------------------------
(* Failures inside process().                                               *)

IsCheckCall(call) == call \in {"check", "check failed"}

(* the checker calls made so far, one per paragraph *)
CheckCalls == SelectSeq(calls, IsCheckCall)

RECURSIVE TotalLen(_)
TotalLen(seqs) == IF seqs = << >> THEN 0 ELSE Len(Head(seqs)) + TotalLen(Tail(seqs))

(* C15: a checker call that fails for one paragraph contributes no error; the
   paragraphs after it are still checked and their errors kept, and process()
   goes on to its usual returns: the failure dict is never the outcome of a
   failed check *)
C15_FailedCheckContributesNothing ==
    /\ Len(CheckCalls) = Len(responses)
    /\ \A k \in 1 .. Len(responses) : CheckCalls[k] = "check failed" => responses[k] = << >>
    /\ Len(errors) = TotalLen(responses)
    /\ (pc \in {"no_errors", "annotated", "snapshot_saved", "done", "failed"} /\ CheckCalls # << >>) =>
          Len(CheckCalls) = Len(paragraphs)
    /\ (pc = "failed" /\ CheckCalls # << >>) => calls[Len(calls)] = "highlight"

(* two paragraphs: the call for the first fails, the second has one error, and
   process() returns success with its annotation *)
C15_Witness ==
    /\ pc = "done"
    /\ Len(paragraphs) = 2
    /\ CheckCalls = << "check failed", "check" >>
    /\ Len(responses[2]) = 1
    /\ errors = RebiasAll(<< >>, responses[2], paragraphs[2])
    /\ process_result = SuccessResult(Len(annotations))

(* C16: when the extracted text has fewer non-whitespace characters than the
   configured minimum, process() returns the "too little text" dict, which no
   failure dict of the exception handler equals (their messages differ), and
   has called neither the normalizer nor the checker nor the highlighter; with
   at least the minimum it goes on to the normalizer *)
C16_UnreadableIsDistinctAndEarly ==
    /\ pc = "unreadable" =>
          /\ NonWhitespaceChars(raw_text) < ocr_exception_text_length
          /\ process_result = UnreadableResult
          /\ process_result.message.text # FailureResult("").message.text
          /\ calls = << "extract" >>
          /\ cleaned_text = << >> /\ anchor_map = EmptyDict
          /\ responses = << >> /\ errors = << >> /\ annotations = << >>
    /\ (pc = "extracted" /\ NonWhitespaceChars(raw_text) < ocr_exception_text_length) =>
          ~ENABLED Preprocess
    /\ pc \in {"check", "no_errors", "annotated", "snapshot_saved", "done"} =>
          /\ ~(NonWhitespaceChars(raw_text) < ocr_exception_text_length)
          /\ process_result # UnreadableResult

(* a document of two whitespace characters *)
C16_Witness ==
    /\ pc = "unreadable"
    /\ Len(raw_text) = 2
    /\ NonWhitespaceChars(raw_text) = 0
    /\ process_result = UnreadableResult
    /\ calls = << "extract" >>

(* C17: when extraction fails, by raising or by returning nothing, process()
   returns a failure dict with success False, errors_found 0 and output_pdf
   None; the extractor is the only collaborator it has called, and the
   exception has been turned into that dict *)
C17_ExtractionFailureIsFailureResult ==
    (pc = "failed" /\ Len(calls) = 1) =>
        /\ calls = << "extract" >>
        /\ process_result \in {FailureResult(e) : e \in ExtractionFailures}
        /\ process_result.success = FALSE
        /\ process_result.errors_found = 0
        /\ process_result.output_pdf = "None"
        /\ paragraphs = << >> /\ cleaned_text = << >>
        /\ responses = << >> /\ errors = << >> /\ annotations = << >>

C17_Witness ==
    /\ pc = "failed"
    /\ calls = << "extract" >>
    /\ process_result = FailureResult("extraction returned nothing")

-----------------------------------------------------------------------------
(* The word-break stage on its own input.                                   *)

(* what the word-break stage is given, and what it returns when every
   character of its input is anchored to its own offset *)
WordBreakInput == AfterHyphens(raw_text).text

WordBreakOutput == _merge_word_breaks(WordBreakInput, EmptyDict)

(* offset j of the input of a stage is an anchor of its output *)
KeptBy(out, j) == \E k \in DOMAIN out.mapping : j \in Elements(out.mapping[k])

(* C18: where a Korean syllable, a newline and a Korean syllable follow each
   other, the newline is kept exactly when one of the three characters
   immediately before it is '.', '!' or '?', and removed otherwise *)
C18_MergeSuppressedByThreeBeforeNewline ==
    Normalized =>
        \A i \in 0 .. (Len(WordBreakInput) - 3) :
            (/\ _is_korean(At(WordBreakInput, i))
             /\ At(WordBreakInput, i + 1) = NEWLINE
             /\ _is_korean(At(WordBreakInput, i + 2)))
            => (KeptBy(WordBreakOutput, i + 1)
                   <=> \E j \in Max(0, i - 2) .. i :
                          At(WordBreakInput, j) \in SentenceTerminals)

-----------------------------------------------------------------------------
(* The particle stage on its own input.                                     *)

ParticleInput == AfterWordBreaks(raw_text).text

ParticleOutput == _merge_particles(ParticleInput, EmptyDict)

(* a syllable, a space and a particle start at offset i *)
SplitParticleAt(text, i) ==
    /\ i + 2 < Len(text)
    /\ _is_korean(At(text, i))
    /\ At(text, i + 1) = SPACE
    /\ MatchingParticles(text, i) # {}

(* the scan reaches offset i one character at a time: nothing before it matched *)
FirstSplitParticle(text, i) ==
    /\ SplitParticleAt(text, i)
    /\ \A j \in 0 .. (i - 1) : ~SplitParticleAt(text, j)

(* C19: where several particles match after syllable + space, the one listed
   first is consumed: the space before it is removed, the output continues
   with that particle and the character after it, and the scan resumes at that
   character, so that a space + particle following it is merged too *)
C19_FirstListedParticleWins ==
    Normalized =>
        \A i \in 0 .. (Len(ParticleInput) - 3) :
            (/\ FirstSplitParticle(ParticleInput, i)
             /\ Cardinality(MatchingParticles(ParticleInput, i)) > 1)
            => LET first == CHOOSE p \in MatchingParticles(ParticleInput, i) :
                               \A q \in MatchingParticles(ParticleInput, i) : p <= q
                   resume == i + 2 + Len(particles[first])
               IN /\ ~KeptBy(ParticleOutput, i + 1)
                  /\ SubSeq(ParticleOutput.text, 1, resume)
                        = SubSeq(ParticleInput, 1, i + 1)
                             \o SubSeq(ParticleInput, i + 3, resume + 1)
                  /\ SplitParticleAt(ParticleInput, resume)
                        => ~KeptBy(ParticleOutput, resume + 1)

(* "사 에서 를" gives "사에서를" *)
C19_Witness ==
    /\ Normalized
    /\ raw_text = << 49324, 32, 50640, 49436, 32, 47484 >>
    /\ Cardinality(MatchingParticles(ParticleInput, 0)) = 2
    /\ ParticleOutput.text = << 49324, 50640, 49436, 47484 >>
    /\ cleaned_text = << 49324, 50640, 49436, 47484 >>

-----------------------------------------------------------------------------
(* The sentence-break stage on its own input.                               *)

SentenceBreakInput == AfterParticles(raw_text)

SentenceBreakOutput == AfterSentenceBreaks(raw_text)

(* the offsets of the output of the stage that stand for offset i of its input *)
ImagesOf(i) ==
    LET out == _normalize_sentence_breaks(SentenceBreakInput.text, EmptyDict)
    IN {k \in DOMAIN out.mapping : out.mapping[k] = << i >>}

(* C20: a newline of the input of the sentence-break stage that immediately
   follows '.', '!' or '?', or a Korean syllable, stands in the output as one
   space whose anchor is the original index of that newline *)
C20_NewlineBecomesAnchoredSpace ==
    Normalized =>
        \A i \in 1 .. (Len(SentenceBreakInput.text) - 1) :
            (/\ At(SentenceBreakInput.text, i) = NEWLINE
             /\ \/ At(SentenceBreakInput.text, i - 1) \in SentenceTerminals
                \/ _is_korean(At(SentenceBreakInput.text, i - 1)))
            => /\ Cardinality(ImagesOf(i)) = 1
               /\ \A k \in ImagesOf(i) :
                     /\ At(SentenceBreakOutput.text, k) = SPACE
                     /\ Len(SentenceBreakOutput.mapping[k]) = 1
                     /\ SentenceBreakOutput.mapping[k] = SentenceBreakInput.mapping[i]
                     /\ At(raw_text, SentenceBreakOutput.mapping[k][1]) = NEWLINE

(* ".\n사\n": one newline after a full stop, one after a syllable *)
C20_Witness ==
    /\ Normalized
    /\ raw_text = << 46, 10, 49324, 10 >>
    /\ SentenceBreakInput.text = raw_text
    /\ SentenceBreakOutput.text = << 46, 32, 49324, 32 >>
    /\ SentenceBreakOutput.mapping[1] = << 1 >>
    /\ SentenceBreakOutput.mapping[3] = << 3 >>

-----------------------------------------------------------------------------
(* The space stage on its own input.                                        *)

SpaceInput == AfterSentenceBreaks(raw_text)

(* C21: the cleaned text never holds two spaces next to each other; the first
   space of every run of spaces left by the earlier stages stands in the
   cleaned text as one space with the anchor of that first space, and the
   other spaces of the run stand nowhere *)
C21_SpaceRunsCollapse ==
    Normalized =>
        LET input == SpaceInput
            out == _normalize_spaces(input.text, EmptyDict)
            SpaceImagesOf(i) == {k \in DOMAIN out.mapping : out.mapping[k] = << i >>}
        IN /\ \A k \in 1 .. (Len(cleaned_text) - 1) :
                 ~(cleaned_text[k] = SPACE /\ cleaned_text[k + 1] = SPACE)
           /\ \A i \in 0 .. (Len(input.text) - 1) :
                 At(input.text, i) = SPACE =>
                     IF i > 0 /\ At(input.text, i - 1) = SPACE
                     THEN SpaceImagesOf(i) = {}
                     ELSE /\ Cardinality(SpaceImagesOf(i)) = 1
                          /\ \A k \in SpaceImagesOf(i) :
                                /\ At(cleaned_text, k) = SPACE
                                /\ anchor_map[k] = Get(input.mapping, i)

(* ".\n a": the space made from the newline and the space after it *)
C21_Witness ==
    /\ Normalized
    /\ raw_text = << 46, 10, 32, 97 >>
    /\ SpaceInput.text = << 46, 32, 32, 97 >>
    /\ cleaned_text = << 46, 32, 97 >>
    /\ anchor_map[1] = << 1 >>

-----------------------------------------------------------------------------
(* Line groups.                                                             *)

(* twice the vertical center of a box *)
Center2(box) == box[2] + box[4]

(* in the order of vertical centers, every step from c1 to c2 over the centers
   of the boxes of S is at most the line threshold *)
SameLineGroup(S, c1, c2) ==
    \A c \in {Center2(b) : b \in S} :
        ((c1 <= c /\ c < c2) \/ (c2 <= c /\ c < c1)) =>
            \E d \in {Center2(b) : b \in S} :
                d > c /\ d - c <= 2 * LineThreshold * 1000

(* the groups of the boxes of S sorted by vertical center *)
LineGroups(S) == {{b \in S : SameLineGroup(S, Center2(b), Center2(x))} : x \in S}

(* C22: the boxed characters of an error are grouped by vertical center, in
   the order of the centers and whatever their order in the stream; there is
   one annotation per group, its bbox the union of the boxes of the group, all
   with the fields of the error *)
C22_LineGroupsSortedByCenter ==
    (Reconciled /\ Len(errors) = 1 /\ SpanBoxes(errors[1]) # {}) =>
        /\ Len(annotations) = Cardinality(LineGroups(SpanBoxes(errors[1])))
        /\ {annotations[a].bbox : a \in 1 .. Len(annotations)}
              = {UnionBox(g) : g \in LineGroups(SpanBoxes(errors[1]))}
        /\ \A a \in 1 .. Len(annotations) :
              annotations[a] = [Fallback(errors[1]) EXCEPT
                                   !.bbox = annotations[a].bbox,
                                   !.page = annotations[a].page]

-----------------------------------------------------------------------------
(* Characters without a box.                                                *)

(* the box of the single point (x, y) *)
PointBox(info) == << info.x[1], info.y[1], info.x[1], info.y[1] >>

(* C23: when none of the characters an error resolves to has a bbox, the bbox
   of its annotation is the single-point box of the x and y of the first of
   them, and is null only when that character has no x and y *)
C23_NoBoxFallsBackToPoint ==
    (Reconciled /\ Len(errors) = 1 /\ SpanIndices(errors[1]) # << >>
        /\ SpanBoxes(errors[1]) = {}) =>
        LET first_char_info == At(text_with_positions, Head(SpanIndices(errors[1])))
        IN /\ Len(annotations) = 1
           /\ annotations[1].bbox
                 = IF first_char_info.x # << >> /\ first_char_info.y # << >>
                   THEN PointBox(first_char_info)
                   ELSE NoBox

(* the annotations of error e when it is the only error of the document *)
AloneAnnotations(e) == _create_annotations(<< e >>, anchor_map, text_with_positions)

(* C24: two errors with the same wrong text whose spans resolve to different
   original characters of one page each keep their own annotations: the list
   is the annotations of the first followed by those of the second, also when
   no character carries a bbox *)
C24_DistinctSpansKeepOwnAnnotation ==
    (/\ Reconciled
     /\ Len(errors) = 2
     /\ errors[1].wrong = errors[2].wrong
     /\ SpanIndices(errors[1]) # << >>
     /\ SpanIndices(errors[2]) # << >>
     /\ Elements(SpanIndices(errors[1])) \cap Elements(SpanIndices(errors[2])) = {}
     /\ At(text_with_positions, Head(SpanIndices(errors[1]))).page
           = At(text_with_positions, Head(SpanIndices(errors[2]))).page)
    => annotations = AloneAnnotations(errors[1]) \o AloneAnnotations(errors[2])

-----------------------------------------------------------------------------
(* Paragraphs and the raw text.                                             *)

(* C25: the text of every paragraph is the slice raw_text[start_index:end_index],
   so that its k-th character is the raw character at start_index + k *)
C25_ParagraphIsRawSlice ==
    \A p \in 1 .. Len(paragraphs) :
        /\ paragraphs[p].text
              = Slice(raw_text, paragraphs[p].start_index, paragraphs[p].end_index)
        /\ \A k \in 0 .. (Len(paragraphs[p].text) - 1) :
              At(paragraphs[p].text, k) = At(raw_text, paragraphs[p].start_index + k)

-----------------------------------------------------------------------------
(* Calls in flight.                                                         *)

(* C26: two process() calls on one processor, their steps interleaved in any
   way, each return the annotations they return when run alone; the paragraph
   list and the anchor map of a call are those of its own document, and its
   key set holds keys of its own annotations only *)
C26_CallsDoNotInterfere ==
    \A c \in DOMAIN requests :
        /\ requests[c].pc # "extract" =>
              /\ requests[c].paragraphs
                    = _split_into_paragraphs(requests[c].text_with_positions,
                                             requests[c].raw_text)
              /\ requests[c].anchor_map = preprocess(requests[c].raw_text).mapping
        /\ requests[c].pc \in {"annotate", "done"} =>
              /\ requests[c].annotations
                    = _create_annotations(SubSeq(requests[c].errors, 1, requests[c].next - 1),
                                          requests[c].anchor_map,
                                          requests[c].text_with_positions)
              /\ requests[c].seen_keys
                    \subseteq {AnnotationKey(requests[c].annotations[a].wrong,
                                             requests[c].annotations[a].page,
                                             requests[c].annotations[a].bbox) :
                                  a \in 1 .. Len(requests[c].annotations)}
        /\ requests[c].pc = "done" => requests[c].next = Len(requests[c].errors) + 1

(* both calls were given the same document and the same error, and each has
   returned its annotation *)
C26_Witness ==
    /\ requests # << >>
    /\ \A c \in Callers :
          /\ requests[c].pc = "done"
          /\ Len(requests[c].errors) = 1
          /\ Len(requests[c].annotations) = 1
    /\ requests[1].text_with_positions = requests[2].text_with_positions
    /\ requests[1].errors = requests[2].errors

-----------------------------------------------------------------------------
(* The shape of the anchor map.                                             *)

StrictlyIncreasing(seq) == \A a, b \in 1 .. Len(seq) : a < b => seq[a] < seq[b]

(* C27: after preprocess() every entry of the anchor map is a list of one
   original index, the indices grow strictly with the cleaned offset, and
   get_original_positions returns a strictly increasing list for every range *)
C27_AnchorsSingleAndIncreasing ==
    Normalized =>
        /\ \A k \in DOMAIN anchor_map : Len(anchor_map[k]) = 1
        /\ \A j, k \in DOMAIN anchor_map : j < k => anchor_map[j][1] < anchor_map[k][1]
        /\ \A a \in 0 .. Len(cleaned_text) : \A b \in a .. Len(cleaned_text) :
              StrictlyIncreasing(get_original_positions(anchor_map, a, b))

(* "사\n사a": the newline is merged away, "사사a" is anchored to 0, 2, 3 *)
C27_Witness ==
    /\ Normalized
    /\ raw_text = << 49324, 10, 49324, 97 >>
    /\ cleaned_text = << 49324, 49324, 97 >>
    /\ get_original_positions(anchor_map, 0, 3) = << 0, 2, 3 >>

(* C28: the character at every cleaned offset is the raw character at its
   anchor, except that it is a space where the raw character is a newline or a
   private-use glyph of U+F000..U+F0FF *)
C28_CleanedCharIsAnchoredRawChar ==
    Normalized =>
        \A k \in DOMAIN anchor_map :
            \A n \in 1 .. Len(anchor_map[k]) :
                LET j == anchor_map[k][n] IN
                /\ 0 <= j /\ j < Len(raw_text)
                /\ At(cleaned_text, k)
                      = IF \/ At(raw_text, j) = NEWLINE
                           \/ (PUA_FIRST <= At(raw_text, j) /\ At(raw_text, j) <= PUA_LAST)
                        THEN SPACE
                        ELSE At(raw_text, j)

(* U+F0B7 ".\na": the marker and the newline stand as spaces at their anchors *)
C28_Witness ==
    /\ Normalized
    /\ raw_text = << 61623, 46, 10, 97 >>
    /\ cleaned_text = << 32, 46, 32, 97 >>
    /\ anchor_map[0] = << 0 >>
    /\ anchor_map[2] = << 2 >>

(* the paragraphs of ps whose [start_index, end_index) holds raw index j *)
Covering(ps, j) == {k \in 1 .. Len(ps) : ps[k].start_index <= j /\ j < ps[k].end_index}

(* C29: no paragraph returned by _split_into_paragraphs has an empty or
   whitespace-only text, and the index of every non-whitespace raw character
   lies in [start_index, end_index) of exactly one paragraph, the characters
   accumulated after the last close included *)
C29_NonBlankParagraphsCoverText ==
    pc = "split_done" =>
        /\ \A k \in 1 .. Len(paragraphs) :
              \E n \in 1 .. Len(paragraphs[k].text) :
                  ~IsWhitespace(paragraphs[k].text[n])
        /\ \A j \in 0 .. Len(raw_text) - 1 :
              ~IsWhitespace(At(raw_text, j)) => Cardinality(Covering(paragraphs, j)) = 1

(* a blank line closes the first paragraph, a blank stretch is dropped, and the
   text ends inside a paragraph that no newline closes *)
C29_Witness ==
    /\ pc = "split_done"
    /\ Len(raw_text) > ParagraphSoftLimit
    /\ ~IsWhitespace(At(raw_text, Len(raw_text) - 1))
    /\ Len(paragraphs) = 2
    /\ Covering(paragraphs, Len(raw_text) - 1) = {2}
    /\ \E j \in 0 .. Len(raw_text) - 1 : Covering(paragraphs, j) = {}

(* the collaborators process() calls outside the paragraph loop, in the order
   of its text *)
StepOrder == << "extract", "preprocess", "annotate", "snapshot", "highlight" >>

IsStepCall(call) == ~IsCheckCall(call)

(* the calls made so far that are not checker calls *)
StepCalls == SelectSeq(calls, IsStepCall)

Called(step) == \E n \in 1 .. Len(calls) : calls[n] = step

(* C30: in every run of process() the steps occur in the order extraction,
   text-length check, normalization, paragraph checking, annotation building,
   snapshot, highlighting, each at most once apart from the checks; the
   annotations, the snapshot and the highlighter come only after the checker
   returned at least one error; when it returned none the run ends with
   success = True, errors_found = 0 and no output_pdf, and none of the three *)
C30_StepsInOrder ==
    /\ Len(StepCalls) <= Len(StepOrder)
    /\ StepCalls = SubSeq(StepOrder, 1, Len(StepCalls))
    /\ \A n \in 1 .. Len(calls) :
          IsCheckCall(calls[n]) =>
              /\ \E a \in 1 .. n - 1 : calls[a] = "preprocess"
              /\ \A b \in n + 1 .. Len(calls) : calls[b] # "preprocess"
              /\ \A a \in 1 .. n - 1 : calls[a] \notin {"annotate", "snapshot", "highlight"}
    /\ pc = "extracted" => calls = << "extract" >>
    /\ pc = "unreadable" =>
          /\ calls = << "extract" >>
          /\ NonWhitespaceChars(raw_text) < ocr_exception_text_length
    /\ Called("preprocess") => ~(NonWhitespaceChars(raw_text) < ocr_exception_text_length)
    /\ (Called("annotate") \/ Called("snapshot") \/ Called("highlight")) =>
          /\ Len(errors) >= 1
          /\ Len(responses) = Len(paragraphs)
    /\ (Called("preprocess") /\ pc # "check" /\ Len(errors) = 0) => pc = "no_errors"
    /\ pc = "no_errors" =>
          /\ Len(errors) = 0
          /\ process_result.success = TRUE
          /\ process_result.errors_found = 0
          /\ process_result.output_pdf = "None"
          /\ annotations = << >>
          /\ ~Called("annotate") /\ ~Called("snapshot") /\ ~Called("highlight")
          /\ ~ENABLED Next

(* a run through every step: two paragraphs checked, then the annotations, the
   snapshot and the highlighter *)
C30_Witness ==
    /\ pc = "done"
    /\ calls = << "extract", "preprocess", "check", "check", "annotate", "snapshot",
                  "highlight" >>
    /\ Len(errors) >= 1
    /\ process_result.success = TRUE
====
